---------------------------- MODULE Spec2Model ----------------------------
(***************************************************************************)
(* A model of the ODP crypto engine of platform/linux-dpdk/odp_crypto.c:   *)
(* the session pool, session creation and destruction, device selection    *)
(* and the per-call operation engine (odp_crypto_int).                     *)
(*                                                                         *)
(* Pointers are numbers: 0 is NULL.  A pointer to global->sessions[idx] is *)
(* the slot number idx + 1, and a session handle is that pointer.  Arrays  *)
(* indexed from 0 in the code are functions on 0 .. n-1 here.              *)
(***************************************************************************)
EXTENDS Integers, Sequences, FiniteSets, TLC

(***************************************************************************)
(* Sizes.  MAX_SESSIONS is 2048 in the code; the model runs the same code  *)
(* over a pool of MAX_SESSIONS slots for a small MAX_SESSIONS.  HeapSize   *)
(* is the number of buffers rte_malloc can hand out before it returns      *)
(* NULL.                                                                   *)
(***************************************************************************)
MAX_SESSIONS == 2

HeapSize == 2

\* The descriptors of crypto_op_pool (NB_MBUF in the code), scaled down.
NB_MBUF == 2

\* The descriptors a queue pair holds (NB_DESC_PER_QUEUE_PAIR), scaled down.
NB_DESC_PER_QUEUE_PAIR == 2

\* The retry ceiling of the dequeue loop (MAX_DEQ_RETRIES), scaled down.
MAX_DEQ_RETRIES == 1

MAX_IV_LENGTH == 16

AES_CCM_AAD_OFFSET == 18

PACKET_DIGEST_MAX == 64

PACKET_AAD_MAX == 32

UINT16 == 65536

ODP_CRYPTO_SESSION_INVALID == -1

Slots == 1 .. MAX_SESSIONS

(***************************************************************************)
(* rte_crypto_param_range and is_valid_size.                               *)
(***************************************************************************)
Range(mn, mx, inc) == [min |-> mn, max |-> mx, increment |-> inc]

zero_range == Range(0, 0, 0)

\* What stands for the return value of a call that does not return.
NoReturn == 1

\* The for loop of is_valid_size; supp_size is a uint16_t, and a loop that
\* comes back to range.min without having left goes round for ever.
RECURSIVE is_valid_size_loop(_, _, _)
is_valid_size_loop(length, supp_size, range) ==
    IF supp_size > range.max THEN -1
    ELSE IF length = supp_size THEN 0
    ELSE LET next == (supp_size + range.increment) % UINT16
         IN  IF next = range.min THEN NoReturn
             ELSE is_valid_size_loop(length, next, range)

is_valid_size(length, range) ==
    IF length < range.min THEN -1
    ELSE IF range.min # length /\ range.increment = 0 THEN -1
    ELSE is_valid_size_loop(length, range.min, range)

(***************************************************************************)
(* The algorithm mappers.  "UNMAPPED" is the rc = -1 of the default case.  *)
(***************************************************************************)
cipher_is_aead(cipher_alg) == cipher_alg \in {"AES_GCM", "AES_CCM"}

cipher_aead_alg_odp_to_rte(cipher_alg) ==
    CASE cipher_alg = "AES_GCM" -> "AEAD_AES_GCM"
      [] cipher_alg = "AES_CCM" -> "AEAD_AES_CCM"
      [] OTHER -> "UNMAPPED"

cipher_alg_odp_to_rte(cipher_alg) ==
    CASE cipher_alg = "NULL" -> "CIPHER_NULL"
      [] cipher_alg \in {"DES", "3DES_CBC"} -> "CIPHER_3DES_CBC"
      [] cipher_alg = "AES_CBC" -> "CIPHER_AES_CBC"
      [] cipher_alg = "AES_CTR" -> "CIPHER_AES_CTR"
      [] cipher_alg = "KASUMI_F8" -> "CIPHER_KASUMI_F8"
      [] cipher_alg = "SNOW3G_UEA2" -> "CIPHER_SNOW3G_UEA2"
      [] cipher_alg = "ZUC_EEA3" -> "CIPHER_ZUC_EEA3"
      [] OTHER -> "UNMAPPED"

auth_alg_odp_to_rte(auth_alg) ==
    CASE auth_alg = "NULL" -> "AUTH_NULL"
      [] auth_alg = "MD5_HMAC" -> "AUTH_MD5_HMAC"
      [] auth_alg = "SHA256_HMAC" -> "AUTH_SHA256_HMAC"
      [] auth_alg = "SHA1_HMAC" -> "AUTH_SHA1_HMAC"
      [] auth_alg = "SHA512_HMAC" -> "AUTH_SHA512_HMAC"
      [] auth_alg = "AES_GMAC" -> "AUTH_AES_GMAC"
      [] auth_alg = "AES_CMAC" -> "AUTH_AES_CMAC"
      [] auth_alg = "KASUMI_F9" -> "AUTH_KASUMI_F9"
      [] auth_alg = "SNOW3G_UIA2" -> "AUTH_SNOW3G_UIA2"
      [] auth_alg = "ZUC_EIA3" -> "AUTH_ZUC_EIA3"
      [] OTHER -> "UNMAPPED"


(***************************************************************************)
(* The accelerator instances (rte_cryptodev) of the platform.  A device is *)
(* its capability list, its limits and its NUMA socket; a capability entry *)
(* is one rte_cryptodev_capabilities element, the list ending where the    *)
(* code meets RTE_CRYPTO_OP_TYPE_UNDEFINED.  A faithful device takes every *)
(* descriptor its queue pair has room for, completes it before the retry   *)
(* ceiling and reports what an ideal cipher and MAC give; any other device *)
(* may refuse, be late and report any status.                              *)
(***************************************************************************)
Cap(type, algo, key, iv, digest, aad) ==
    [xform_type |-> type, algo |-> algo, key_size |-> key, iv_size |-> iv,
     digest_size |-> digest, aad_size |-> aad]

Arr(seq) == [i \in 0 .. Len(seq) - 1 |-> seq[i + 1]]

\* A software multi-buffer device: AES-CBC, HMAC-SHA256 and AES-GCM.
DevMB ==
    [capabilities |->
        << Cap("CIPHER", "CIPHER_AES_CBC", Range(16, 32, 8), Range(16, 16, 0),
               zero_range, zero_range),
           Cap("AUTH", "AUTH_SHA256_HMAC", Range(1, 64, 1), Range(0, 0, 0),
               Range(1, 32, 1), zero_range),
           Cap("AUTH", "AUTH_AES_GMAC", Range(16, 32, 8), Range(12, 12, 0),
               Range(8, 16, 4), zero_range),
           Cap("AEAD", "AEAD_AES_GCM", Range(16, 32, 8), Range(12, 12, 0),
               Range(8, 16, 4), Range(0, 16, 1)) >>,
     max_nb_queue_pairs |-> 1, max_nb_sessions |-> 2048, socket_id |-> 0,
     hw_accelerated |-> FALSE, faithful |-> FALSE]

\* The same device, faithful.
DevIdeal == [DevMB EXCEPT !.faithful = TRUE]

\* A GCM-only device with one queue pair.
DevGCM ==
    [capabilities |->
        << Cap("AEAD", "AEAD_AES_GCM", Range(16, 16, 0), Range(12, 12, 0),
               Range(16, 16, 0), Range(0, 16, 1)) >>,
     max_nb_queue_pairs |-> 1, max_nb_sessions |-> 1024, socket_id |-> 0,
     hw_accelerated |-> TRUE, faithful |-> FALSE]

\* The null device: the NULL cipher and the NULL authentication.
DevNull ==
    [capabilities |->
        << Cap("CIPHER", "CIPHER_NULL", zero_range, zero_range, zero_range,
               zero_range),
           Cap("AUTH", "AUTH_NULL", zero_range, zero_range, zero_range,
               zero_range) >>,
     max_nb_queue_pairs |-> 2, max_nb_sessions |-> 2048, socket_id |-> 0,
     hw_accelerated |-> FALSE, faithful |-> FALSE]

\* The platforms the model is run on: the device list rte_cryptodev knows.
DevConfigs ==
    { Arr(<< >>), Arr(<< DevMB >>), Arr(<< DevNull, DevMB >>) }

\* odp_cpu_count()
CpuCount == 2

\* The execution contexts that call odp_crypto_int at the same time.
NThreads == 3

Threads == 1 .. NThreads

VARIABLES
    cdevs,                          \* rte_cryptodev: cdev_id -> device
    crypto_global_shm,              \* the region "crypto_pool": "reserved"
                                    \* or "freed"
    crypto_op_mempool,              \* the rte_mempool "crypto_op_pool":
                                    \* "NULL" (never created), "created" or
                                    \* "freed"
    enabled_crypto_devs,            \* global->enabled_crypto_devs
    enabled_crypto_dev_ids,         \* global->enabled_crypto_dev_ids[]
    enabled_crypto_dev_nb_qpairs,   \* global->enabled_crypto_dev_nb_qpairs[]
    lock,                           \* global->lock: 1 while held
    free,                           \* global->free: the free list, head first
    sessions,                       \* global->sessions[]
    rte_heap_size,                  \* the buffers rte_malloc can hand out
    rte_heap,                       \* rte_malloc'ed buffers: pointer -> buffer
    rte_sessions,                   \* native session objects: pointer -> object
    crypto_op_pool,                 \* global->crypto_op_pool: descriptor ->
                                    \* the times it is in the pool
    queues,                         \* << cdev_id, queue pair >> -> the
                                    \* descriptors enqueued, oldest first
    live,                           \* handles created and not yet destroyed
    calls,                          \* thread -> its odp_crypto_int in progress
    m_src,                          \* descriptor -> the thread whose packet
                                    \* op->sym->m_src names, 0 once that call
                                    \* has returned
    batch,                          \* the odp_crypto_op / odp_crypto_op_enq
                                    \* call in progress or returned, and the
                                    \* completion queues
    last                            \* the last call: its inputs and results

devVars == << cdevs, crypto_global_shm, crypto_op_mempool, enabled_crypto_devs,
              enabled_crypto_dev_ids, enabled_crypto_dev_nb_qpairs,
              rte_heap_size >>

sessVars == << free, sessions, rte_heap, rte_sessions, live >>

opVars == << crypto_op_pool, queues >>

parVars == << calls, m_src, batch >>

vars == << devVars, lock, sessVars, opVars, parVars, last >>

rte_cryptodev_count == Cardinality(DOMAIN cdevs)

Min(a, b) == IF a < b THEN a ELSE b

SetMin(S) == CHOOSE x \in S : \A y \in S : x <= y

(***************************************************************************)
(* The capability scan of the selectors and of the capability queries: the *)
(* first entry of the device's list with the transform type and algorithm, *)
(* 0 when the scan reaches the end of the list.                            *)
(***************************************************************************)
FindCap(dev, type, algo) ==
    LET hits == { i \in 1 .. Len(dev.capabilities) :
                    /\ dev.capabilities[i].xform_type = type
                    /\ dev.capabilities[i].algo = algo }
    IN  IF hits = {} THEN 0 ELSE SetMin(hits)

\* One device against an AEAD transform: the body of get_crypto_aead_dev's loop.
aead_dev_ok(dev, aead_xform) ==
    LET c == FindCap(dev, "AEAD", aead_xform.algo)
        cap == dev.capabilities[c]
    IN  /\ c # 0
        /\ is_valid_size(aead_xform.key.length, cap.key_size) = 0
        /\ ~ (aead_xform.iv.length > MAX_IV_LENGTH)
        /\ is_valid_size(aead_xform.iv.length, cap.iv_size) = 0
        /\ is_valid_size(aead_xform.digest_length, cap.digest_size) = 0

\* The cipher half of get_crypto_dev's loop body (skipped by goto check_auth).
cipher_dev_ok(dev, cipher_xform) ==
    \/ cipher_xform.algo = "CIPHER_NULL"
    \/ LET c == FindCap(dev, "CIPHER", cipher_xform.algo)
           cap == dev.capabilities[c]
       IN  /\ c # 0
           /\ is_valid_size(cipher_xform.key.length, cap.key_size) = 0
           /\ ~ (cipher_xform.iv.length > MAX_IV_LENGTH)
           /\ is_valid_size(cipher_xform.iv.length, cap.iv_size) = 0

\* The auth half, from check_auth to check_finish.
auth_dev_ok(dev, cipher_xform, auth_xform) ==
    \/ /\ auth_xform.algo = "AUTH_NULL"
       /\ cipher_xform.algo # "CIPHER_NULL"
    \/ LET c == FindCap(dev, "AUTH", auth_xform.algo)
           cap == dev.capabilities[c]
       IN  /\ c # 0
           /\ is_valid_size(auth_xform.key.length, cap.key_size) = 0
           /\ is_valid_size(auth_xform.digest_length, cap.digest_size) = 0
           /\ ~ (auth_xform.iv.length > MAX_IV_LENGTH)
           /\ is_valid_size(auth_xform.iv.length, cap.iv_size) = 0

\* A scan that keeps the last device that passes.
dev_scan_last(passing) ==
    IF passing = {} THEN [rc |-> -1, dev_id |-> 0]
    ELSE [rc |-> 0,
          dev_id |-> enabled_crypto_dev_ids[
                         CHOOSE x \in passing : \A y \in passing : y <= x]]

\* The scan over the registry, id = 0, 1, ...: the first id whose device is in
\* `passing` (the registry positions whose device passes the loop body), as
\* [rc, dev_id]; *dev_id keeps the caller's 0 when no device passes.
dev_scan(passing) ==
    IF passing = {} THEN [rc |-> -1, dev_id |-> 0]
    ELSE [rc |-> 0, dev_id |-> enabled_crypto_dev_ids[SetMin(passing)]]

get_crypto_aead_dev(aead_xform) ==
    dev_scan({ id \in 0 .. enabled_crypto_devs - 1 :
                 aead_dev_ok(cdevs[enabled_crypto_dev_ids[id]], aead_xform) })

get_crypto_dev(cipher_xform, auth_xform) ==
    dev_scan({ id \in 0 .. enabled_crypto_devs - 1 :
                 LET dev == cdevs[enabled_crypto_dev_ids[id]]
                 IN  /\ cipher_dev_ok(dev, cipher_xform)
                     /\ auth_dev_ok(dev, cipher_xform, auth_xform) })

(***************************************************************************)
(* Session parameters (odp_crypto_session_param_t).  A data pointer is 0   *)
(* (NULL) or a number naming the bytes it points to.                       *)
(***************************************************************************)
ParamInit ==
    [op |-> "ENCODE", auth_cipher_text |-> FALSE, op_mode |-> "SYNC",
     cipher_alg |-> "NULL", cipher_key |-> [data |-> 0, length |-> 0],
     cipher_iv |-> [data |-> 0, length |-> 0],
     auth_alg |-> "NULL", auth_key |-> [data |-> 0, length |-> 0],
     auth_iv |-> [data |-> 0, length |-> 0],
     auth_digest_len |-> 0, auth_aad_len |-> 0,
     output_pool |-> 0, compl_queue |-> 0]

\* AES-128-CBC with HMAC-SHA256, no session IV.
P_CbcSha ==
    [ParamInit EXCEPT !.cipher_alg = "AES_CBC",
                      !.cipher_key = [data |-> 101, length |-> 16],
                      !.cipher_iv = [data |-> 0, length |-> 16],
                      !.auth_alg = "SHA256_HMAC",
                      !.auth_key = [data |-> 102, length |-> 32],
                      !.auth_digest_len = 32,
                      !.auth_cipher_text = TRUE]

\* AES-128-GCM with a session IV and an output pool.
P_Gcm ==
    [ParamInit EXCEPT !.cipher_alg = "AES_GCM", !.output_pool = 1,
                      !.cipher_key = [data |-> 101, length |-> 16],
                      !.cipher_iv = [data |-> 104, length |-> 12],
                      !.auth_alg = "AES_GCM",
                      !.auth_digest_len = 16, !.auth_aad_len = 12,
                      !.op = "DECODE"]

\* A cipher key length no device advertises.
P_BadKey == [P_CbcSha EXCEPT !.cipher_key = [data |-> 101, length |-> 17]]

\* A cipher algorithm the mapper does not know.
P_BadCipher == [P_CbcSha EXCEPT !.cipher_alg = "CHACHA20_POLY1305"]

\* An authentication algorithm the mapper does not know.
P_BadAuth == [P_CbcSha EXCEPT !.auth_alg = "SHA384_HMAC"]

\* An AEAD digest longer than the packet's digest scratch buffer.
P_LongDigest == [P_Gcm EXCEPT !.auth_digest_len = PACKET_DIGEST_MAX + 1]

\* NULL cipher with NULL authentication.
P_Null == ParamInit

\* AES-128-GCM without a session IV.
P_GcmNoIv == [P_Gcm EXCEPT !.cipher_iv = [data |-> 0, length |-> 12]]

\* AES-128-CBC with AES-GMAC verification, no session IV for either.
P_CbcGmac ==
    [P_CbcSha EXCEPT !.op = "DECODE", !.auth_alg = "AES_GMAC",
                     !.auth_key = [data |-> 101, length |-> 16],
                     !.auth_iv = [data |-> 0, length |-> 12],
                     !.auth_digest_len = 16]

\* The sessions the operation engine is run with.
OpParams == { P_CbcSha, P_Gcm, P_GcmNoIv, P_CbcGmac }

SessionParams ==
    { P_CbcSha, P_Gcm, P_BadKey, P_BadCipher, P_BadAuth, P_LongDigest, P_Null }

(***************************************************************************)
(* rte_crypto_sym_xform, the members of its union side by side.  iv.offset *)
(* is counted from IV_OFFSET, the end of the descriptor's fixed header.    *)
(* StackXform is a local of odp_crypto_session_create before it is filled. *)
(***************************************************************************)
IV_OFFSET == 0

StackXform ==
    [type |-> "INDET", next |-> "INDET", algo |-> "INDET",
     key |-> [data |-> 0, length |-> 0], iv |-> [offset |-> 0, length |-> 0],
     op |-> "INDET", digest_length |-> 0, aad_length |-> 0]

ZeroXform ==
    [type |-> "ZERO", next |-> "NULL", algo |-> "ZERO",
     key |-> [data |-> 0, length |-> 0], iv |-> [offset |-> 0, length |-> 0],
     op |-> "ZERO", digest_length |-> 0, aad_length |-> 0]

\* memset(session, 0, sizeof(*session)); the next link is the free list's.
ZeroSession ==
    [p |-> ParamInit, rte_session |-> 0, cipher_xform |-> ZeroXform,
     auth_xform |-> ZeroXform, cdev_nb_qpairs |-> 0, cdev_id |-> 0,
     cipher_iv_data |-> 0, auth_iv_data |-> 0]

(***************************************************************************)
(* rte_malloc over a heap of rte_heap_size buffers: the lowest free        *)
(* pointer, or NULL when none is left.                                     *)
(***************************************************************************)
rte_malloc(heap) ==
    LET avail == (1 .. rte_heap_size) \ DOMAIN heap
    IN  IF avail = {} THEN 0 ELSE SetMin(avail)

HeapPut(heap, ptr, buf) ==
    [q \in DOMAIN heap \cup {ptr} |-> IF q = ptr THEN buf ELSE heap[q]]

\* crypto_init_key: [rc, data, length, heap]; *data and *length are written
\* only on success.
crypto_init_key(heap, data, length, key, type) ==
    LET ptr == IF key.length # 0 THEN rte_malloc(heap) ELSE 0
    IN  IF key.length # 0 /\ ptr = 0
        THEN [rc |-> -1, data |-> data, length |-> length, heap |-> heap]
        ELSE [rc |-> 0, data |-> ptr, length |-> key.length,
              heap |-> IF key.length # 0
                       THEN HeapPut(heap, ptr, [type |-> type, bytes |-> key.data])
                       ELSE heap]

\* Each crypto_fill_*_xform gives [rc, xform, heap].
crypto_fill_cipher_xform(cipher_xform, param, heap) ==
    LET x1 == [cipher_xform EXCEPT !.type = "CIPHER", !.next = "NULL"]
        algo == cipher_alg_odp_to_rte(param.cipher_alg)
        x2 == [x1 EXCEPT !.algo = algo]
        k == crypto_init_key(heap, x2.key.data, x2.key.length,
                             param.cipher_key, "cipher key")
        x3 == [x2 EXCEPT !.key = [data |-> k.data, length |-> k.length],
                         !.iv = [offset |-> IV_OFFSET,
                                 length |-> param.cipher_iv.length],
                         !.op = IF param.op = "ENCODE" THEN "ENCRYPT"
                                ELSE "DECRYPT"]
    IN  IF algo = "UNMAPPED" THEN [rc |-> -1, xform |-> x1, heap |-> heap]
        ELSE IF k.rc # 0 THEN [rc |-> -1, xform |-> x2, heap |-> k.heap]
        ELSE [rc |-> 0, xform |-> x3, heap |-> k.heap]

crypto_fill_auth_xform(auth_xform, param, heap) ==
    LET x1 == [auth_xform EXCEPT !.type = "AUTH", !.next = "NULL"]
        algo == auth_alg_odp_to_rte(param.auth_alg)
        x2 == [x1 EXCEPT !.algo = algo,
                         !.digest_length = param.auth_digest_len]
        k == crypto_init_key(heap, x2.key.data, x2.key.length,
                             param.auth_key, "auth key")
        x3 == [x2 EXCEPT !.key = [data |-> k.data, length |-> k.length],
                         !.iv = [offset |-> IV_OFFSET + MAX_IV_LENGTH,
                                 length |-> param.auth_iv.length],
                         !.op = IF param.op = "ENCODE" THEN "GENERATE"
                                ELSE "VERIFY"]
    IN  IF algo = "UNMAPPED" THEN [rc |-> -1, xform |-> x1, heap |-> heap]
        ELSE IF x2.digest_length > PACKET_DIGEST_MAX
             THEN [rc |-> -1, xform |-> x2, heap |-> heap]
        ELSE IF k.rc # 0 THEN [rc |-> -1, xform |-> x2, heap |-> k.heap]
        ELSE [rc |-> 0, xform |-> x3, heap |-> k.heap]

\* The AES-CCM test on the AAD length without the offset.
aad_too_long_ccm_nooffset(aead_xform) ==
    /\ aead_xform.algo = "AEAD_AES_CCM"
    /\ aead_xform.aad_length > PACKET_AAD_MAX

\* The AES-CCM test on the AAD length, which goes after AES_CCM_AAD_OFFSET
\* bytes in the scratch buffer.
aad_too_long_ccm(aead_xform) ==
    /\ aead_xform.algo = "AEAD_AES_CCM"
    /\ aead_xform.aad_length + AES_CCM_AAD_OFFSET > PACKET_AAD_MAX

crypto_fill_aead_xform(aead_xform, param, heap) ==
    LET x1 == [aead_xform EXCEPT !.type = "AEAD", !.next = "NULL"]
        algo == cipher_aead_alg_odp_to_rte(param.cipher_alg)
        x2 == [x1 EXCEPT !.algo = algo]
        k == crypto_init_key(heap, x2.key.data, x2.key.length,
                             param.cipher_key, "aead key")
        x3 == [x2 EXCEPT !.key = [data |-> k.data, length |-> k.length],
                         !.iv = [offset |-> IV_OFFSET,
                                 length |-> param.cipher_iv.length],
                         !.aad_length = param.auth_aad_len]
        x4 == [x3 EXCEPT !.digest_length = param.auth_digest_len]
        x5 == [x4 EXCEPT !.op = IF param.op = "ENCODE" THEN "ENCRYPT"
                                ELSE "DECRYPT"]
    IN  IF algo = "UNMAPPED" THEN [rc |-> -1, xform |-> x1, heap |-> heap]
        ELSE IF k.rc # 0 THEN [rc |-> -1, xform |-> x2, heap |-> k.heap]
        ELSE IF x3.aad_length > PACKET_AAD_MAX
             THEN [rc |-> -1, xform |-> x3, heap |-> k.heap]
        ELSE IF aad_too_long_ccm(x3)
             THEN [rc |-> -1, xform |-> x3, heap |-> k.heap]
        ELSE IF x4.digest_length > PACKET_DIGEST_MAX
             THEN [rc |-> -1, xform |-> x4, heap |-> k.heap]
        ELSE [rc |-> 0, xform |-> x5, heap |-> k.heap]

(***************************************************************************)
(* The session pool.  alloc_session detaches the head of the free list     *)
(* (NULL from an empty list), free_session puts a slot at the head; both   *)
(* run under global->lock.                                                 *)
(***************************************************************************)
\* alloc_session without the test of the list head: an empty list still
\* hands out a slot.
alloc_session_nocheck(list) ==
    IF list = << >> THEN [session |-> 1, free |-> list]
    ELSE [session |-> Head(list), free |-> Tail(list)]

alloc_session(list) ==
    IF list = << >> THEN [session |-> 0, free |-> list]
    ELSE [session |-> Head(list), free |-> Tail(list)]

\* free_session that loses the slot.
free_session_drop(list, session) == list

free_session(list, session) == << session >> \o list

(***************************************************************************)
(* The transform chain handed to the accelerator: which transform is first *)
(* and what its next link is.                                              *)
(***************************************************************************)
\* A chain that puts the cipher first whenever both transforms are there.
xform_chain_cipher_first(param) ==
    IF param.cipher_alg = "NULL"
    THEN [first |-> "auth_xform", next |-> "NULL"]
    ELSE IF param.auth_alg = "NULL"
    THEN [first |-> "cipher_xform", next |-> "NULL"]
    ELSE [first |-> "cipher_xform", next |-> "auth_xform"]

xform_chain(param) ==
    LET do_cipher_first == IF param.op = "ENCODE" THEN param.auth_cipher_text
                           ELSE ~ param.auth_cipher_text
    IN  IF param.cipher_alg = "NULL"
        THEN [first |-> "auth_xform", next |-> "NULL"]
        ELSE IF param.auth_alg = "NULL"
        THEN [first |-> "cipher_xform", next |-> "NULL"]
        ELSE IF do_cipher_first
        THEN [first |-> "cipher_xform", next |-> "auth_xform"]
        ELSE [first |-> "auth_xform", next |-> "cipher_xform"]

\* The chain as the accelerator walks it: the transform types in order.
ChainTypes(first_xform, other_xform) ==
    IF first_xform.next = "NULL" THEN << first_xform.type >>
    ELSE << first_xform.type, other_xform.type >>

\* rte_cryptodev_sym_session_create: the lowest unused object of the pool.
NewNative == SetMin((1 .. Cardinality(DOMAIN rte_sessions) + 1)
                    \ DOMAIN rte_sessions)

(***************************************************************************)
(* odp_crypto_session_create as a function of the state, the parameters    *)
(* and the accelerator's answer accel: "create_fail" (the driver's session *)
(* create gives NULL), "init_fail" (its session init gives < 0) or "ok".   *)
(* CreateErr is the err: label, CreateSetup the code from `if (rc)` on.    *)
(* The result names the slot taken, its final content, the heap, and the   *)
(* native object made and whether it is kept (a session whose init failed  *)
(* holds no driver data, and rte_cryptodev_sym_session_free releases it).  *)
(***************************************************************************)
CreateErr(fail, status, session, heap, native) ==
    [rc |-> -1, status |-> status, fail |-> fail, session |-> session,
     entry |-> ZeroSession, heap |-> heap, native |-> native,
     kept |-> FALSE, object |-> << >>,
     session_out |-> ODP_CRYPTO_SESSION_INVALID]

CreateSetup(session, param, cipher_xform, auth_xform, chain, sel, heap, accel) ==
    LET rte_session == NewNative
        cdev_id == sel.dev_id
    IN  IF sel.rc # 0
        THEN CreateErr("select", "ENOMEM", session, heap, 0)
        ELSE IF accel = "create_fail"
        THEN CreateErr("sess_create", "ENOMEM", session, heap, 0)
        ELSE IF accel = "init_fail"
        THEN CreateErr("sess_init", "ENOMEM", session, heap, rte_session)
        ELSE [rc |-> 0, status |-> "NONE", fail |-> "none",
              session |-> session,
              entry |-> [p |-> param, rte_session |-> rte_session,
                         cipher_xform |-> cipher_xform,
                         auth_xform |-> auth_xform,
                         cdev_nb_qpairs |->
                             enabled_crypto_dev_nb_qpairs[cdev_id],
                         cdev_id |-> cdev_id,
                         cipher_iv_data |-> param.cipher_iv.data,
                         auth_iv_data |-> param.auth_iv.data],
              heap |-> heap, native |-> rte_session, kept |-> TRUE,
              object |-> [dev |-> cdev_id, chain |-> chain],
              session_out |-> session]

session_setup(session, param, accel) ==
        IF rte_cryptodev_count = 0
        THEN CreateErr("nodev", "ENOMEM", 0, rte_heap, 0)
        ELSE IF session = 0
        THEN CreateErr("pool", "ENOMEM", 0, rte_heap, 0)
        ELSE IF cipher_is_aead(param.cipher_alg)
        THEN LET a == crypto_fill_aead_xform(StackXform, param, rte_heap)
             IN  IF a.rc < 0
                 THEN CreateErr("cipher", "INV_CIPHER", session, a.heap, 0)
                 ELSE CreateSetup(session, param, a.xform, StackXform,
                                  << a.xform.type >>,
                                  get_crypto_aead_dev(a.xform), a.heap, accel)
        ELSE LET c == crypto_fill_cipher_xform(StackXform, param, rte_heap)
                 au == crypto_fill_auth_xform(StackXform, param, c.heap)
                 ch == xform_chain(param)
                 cx == IF ch.first = "cipher_xform"
                       THEN [c.xform EXCEPT !.next = ch.next] ELSE c.xform
                 ax == IF ch.first = "auth_xform"
                       THEN [au.xform EXCEPT !.next = ch.next] ELSE au.xform
                 chain == IF ch.first = "cipher_xform"
                          THEN ChainTypes(cx, ax) ELSE ChainTypes(ax, cx)
             IN  IF c.rc < 0
                 THEN CreateErr("cipher", "INV_CIPHER", session, c.heap, 0)
                 ELSE IF au.rc < 0
                 THEN CreateErr("auth", "INV_AUTH", session, au.heap, 0)
                 ELSE CreateSetup(session, param, cx, ax, chain,
                                  get_crypto_dev(cx, ax), au.heap, accel)

session_create(param, accel) ==
    session_setup(alloc_session(free).session, param, accel)

NoCall ==
    [op |-> "init", rc |-> 0, status |-> "NONE", fail |-> "none",
     param |-> ParamInit, accel |-> "ok", handle |-> 0, was_live |-> FALSE,
     session |-> 0, session_out |-> 0, free_before |-> 0, heap_before |-> 0,
     keys |-> {}, native |-> 0]

AccelCreate == {"ok", "create_fail", "init_fail"}

\* The call spins in alloc_session while the lock is held.  The accelerator
\* answers only a call that reaches it.
odp_crypto_session_create(param, accel) ==
    \E r \in {session_create(param, accel)}, taken \in {alloc_session(free)} :
        /\ rte_cryptodev_count = 0 \/ lock = 0
        /\ accel = "ok" \/ r.fail \in {"sess_create", "sess_init"}
        /\ free' = IF r.session = 0 THEN free
                   ELSE IF r.rc = 0 THEN taken.free
                   ELSE free_session(taken.free, r.session)
        /\ sessions' = IF r.session = 0 THEN sessions
                       ELSE [sessions EXCEPT ![r.session] = r.entry]
        /\ rte_heap' = r.heap
        /\ rte_sessions' =
               IF r.kept
               THEN [q \in DOMAIN rte_sessions \cup {r.native} |->
                        IF q = r.native THEN r.object ELSE rte_sessions[q]]
               ELSE rte_sessions
        /\ live' = IF r.rc = 0 THEN live \cup {r.session_out} ELSE live
        /\ last' = [op |-> "create", rc |-> r.rc, status |-> r.status,
                    fail |-> r.fail, param |-> param,
                    accel |-> IF r.fail \in {"none", "sess_create", "sess_init"}
                              THEN accel ELSE "none",
                    handle |-> 0, was_live |-> FALSE,
                    session |-> r.session, session_out |-> r.session_out,
                    free_before |-> Len(free),
                    heap_before |-> Cardinality(DOMAIN rte_heap),
                    keys |-> DOMAIN r.heap \ DOMAIN rte_heap,
                    native |-> r.native]
        /\ UNCHANGED << devVars, lock, opVars, parVars >>

(***************************************************************************)
(* odp_crypto_session_destroy.  The accelerator's answer is "clear_fail"   *)
(* (rte_cryptodev_sym_session_clear < 0), "free_fail" (the clear went      *)
(* through and rte_cryptodev_sym_session_free < 0) or "ok".  A clear of a  *)
(* NULL session fails (-EINVAL).  Only free_session needs the lock.        *)
(***************************************************************************)
AccelDestroy == {"clear_fail", "free_fail", "ok"}

\* A destroy that reports success and keeps the slot.
session_destroy_norelease(session, accel) ==
    IF sessions[session].rte_session = 0 \/ accel # "ok"
    THEN [rc |-> -1, fail |-> "clear", released |-> FALSE, freed |-> FALSE]
    ELSE [rc |-> 0, fail |-> "none", released |-> FALSE, freed |-> TRUE]

\* A destroy that releases the slot and leaves the native object allocated.
session_destroy_nofree(session, accel) ==
    IF sessions[session].rte_session = 0 \/ accel # "ok"
    THEN [rc |-> -1, fail |-> "clear", released |-> FALSE, freed |-> FALSE]
    ELSE [rc |-> 0, fail |-> "none", released |-> TRUE, freed |-> FALSE]

session_destroy(session, accel) ==
    LET rte_session == sessions[session].rte_session
    IN  IF rte_session = 0 \/ accel = "clear_fail"
        THEN [rc |-> -1, fail |-> "clear", released |-> FALSE, freed |-> FALSE]
        ELSE IF accel = "free_fail"
        THEN [rc |-> -1, fail |-> "free", released |-> FALSE, freed |-> FALSE]
        ELSE [rc |-> 0, fail |-> "none", released |-> TRUE, freed |-> TRUE]

odp_crypto_session_destroy(session, accel) ==
    \E r \in {session_destroy(session, accel)}, e \in {sessions[session]} :
        /\ ~ r.released \/ lock = 0
        /\ e.rte_session # 0 \/ accel = "clear_fail"
        /\ free' = IF r.released THEN free_session(free, session) ELSE free
        /\ sessions' = IF r.released
                       THEN [sessions EXCEPT ![session] = ZeroSession]
                       ELSE sessions
        /\ rte_sessions' =
               IF r.freed
               THEN [q \in DOMAIN rte_sessions \ {e.rte_session} |->
                        rte_sessions[q]]
               ELSE rte_sessions
        /\ live' = IF r.rc = 0 THEN live \ {session} ELSE live
        /\ last' = [op |-> "destroy", rc |-> r.rc, status |-> "NONE",
                    fail |-> r.fail, param |-> e.p, accel |-> accel,
                    handle |-> session, was_live |-> session \in live,
                    session |-> session, session_out |-> 0,
                    free_before |-> Len(free),
                    heap_before |-> Cardinality(DOMAIN rte_heap),
                    keys |-> ({e.cipher_xform.key.data, e.auth_xform.key.data}
                              \ {0}),
                    native |-> e.rte_session]
        /\ UNCHANGED << devVars, lock, rte_heap, opVars, parVars >>

(***************************************************************************)
(* The per-call operation engine.  A packet is named by the role it plays  *)
(* in the call: "in" the caller's input, "out" a separate output packet of *)
(* the caller, "alloc" a packet taken from the session's output pool,      *)
(* "old" a packet of an earlier call, "INVALID" ODP_PACKET_INVALID.        *)
(*                                                                         *)
(* A packet's content is its payload and the bytes at hash_result_offset.  *)
(* The payload is the plaintext under a stack of cipher layers, the last   *)
(* applied last in the sequence; << >> is the plaintext itself.  Digest    *)
(* bytes, in the packet or in the scratch buffer crypto_digest_buf, are    *)
(* "caller" (bytes of the caller that are no MAC), "zero", "junk" (left    *)
(* from an earlier use) or "mac": the MAC of `data` under `key` and `iv`.  *)
(***************************************************************************)
DigestBytes(t, key, iv, data) == [t |-> t, key |-> key, iv |-> iv, data |-> data]

CallerBytes == DigestBytes("caller", 0, 0, << >>)

ZeroBytes == DigestBytes("zero", 0, 0, << >>)

JunkBytes == DigestBytes("junk", 0, 0, << >>)

\* A packet of the caller that no operation has touched.
FreshPkt == [data |-> << >>, digest |-> CallerBytes]

\* The ideal MAC: equal exactly for equal key, IV and data.
mac(key, iv, data) == DigestBytes("mac", key, iv, data)

\* The ideal cipher: a direction undoes the other one under the same key and
\* IV, and nothing else does.
cipher(op, key, iv, data) ==
    LET inv == IF op = "ENCRYPT" THEN "DECRYPT" ELSE "ENCRYPT"
    IN  IF data # << >> /\ data[Len(data)] = [op |-> inv, key |-> key, iv |-> iv]
        THEN SubSeq(data, 1, Len(data) - 1)
        ELSE Append(data, [op |-> op, key |-> key, iv |-> iv])

Statuses == {"SUCCESS", "AUTH_FAILED", "INVALID_ARGS", "ERROR"}

NoResult == [cipher |-> "UNSET", auth |-> "UNSET", ok |-> FALSE]

\* A digest preparation that leaves the scratch buffer as it is on verify.
crypto_prepare_digest_nocopy(session, pkt, verify) ==
    [buf |-> pkt.buf,
     digest |-> IF session.p.auth_digest_len # 0 THEN ZeroBytes
                ELSE pkt.digest]

\* crypto_prepare_digest: the scratch buffer and the packet's digest bytes.
crypto_prepare_digest(session, pkt, verify) ==
    [buf |-> IF verify /\ session.p.auth_digest_len # 0 THEN pkt.digest
             ELSE pkt.buf,
     digest |-> IF session.p.auth_digest_len # 0 THEN ZeroBytes
                ELSE pkt.digest]

\* The IV placed in the descriptor and the outcome of the primitive.
\* An IV placement that lets a missing IV pass.
iv_place_lenient(param_iv_ptr, session_iv_data, iv_length) ==
    IF param_iv_ptr # 0 THEN [iv |-> "param", err |-> "NONE"]
    ELSE IF session_iv_data # 0 THEN [iv |-> "session", err |-> "NONE"]
    ELSE [iv |-> "none", err |-> "NONE"]

\* An IV placement that prefers the session's cached IV to the call's.
iv_place_session_first(param_iv_ptr, session_iv_data, iv_length) ==
    IF session_iv_data # 0 THEN [iv |-> "session", err |-> "NONE"]
    ELSE IF param_iv_ptr # 0 THEN [iv |-> "param", err |-> "NONE"]
    ELSE IF iv_length # 0 THEN [iv |-> "none", err |-> "IV_INVALID"]
    ELSE [iv |-> "none", err |-> "NONE"]

iv_place(param_iv_ptr, session_iv_data, iv_length) ==
    IF param_iv_ptr # 0 THEN [iv |-> "param", err |-> "NONE"]
    ELSE IF session_iv_data # 0 THEN [iv |-> "session", err |-> "NONE"]
    ELSE IF iv_length # 0 THEN [iv |-> "none", err |-> "IV_INVALID"]
    ELSE [iv |-> "none", err |-> "NONE"]

crypto_fill_aead_param(session, pkt, cipher_iv_ptr, auth_iv_ptr) ==
    LET aead_xform == session.cipher_xform
        d == crypto_prepare_digest(session, pkt, aead_xform.op = "DECRYPT")
        c == iv_place(cipher_iv_ptr, session.p.cipher_iv.data,
                      aead_xform.iv.length)
    IN  [rc_cipher |-> c.err, rc_auth |-> "NONE", cipher_iv |-> c.iv,
         auth_iv |-> "none", buf |-> d.buf, digest |-> d.digest,
         generate |-> aead_xform.op = "ENCRYPT"]

crypto_fill_sym_param(session, pkt, cipher_iv_ptr, auth_iv_ptr) ==
    LET cipher_xform == session.cipher_xform
        auth_xform == session.auth_xform
        d == IF session.p.auth_digest_len = 0
             THEN [buf |-> pkt.buf, digest |-> pkt.digest]
             ELSE crypto_prepare_digest(session, pkt,
                                        auth_xform.op = "VERIFY")
        c == iv_place(cipher_iv_ptr, session.p.cipher_iv.data,
                      cipher_xform.iv.length)
        a == iv_place(auth_iv_ptr, session.p.auth_iv.data,
                      auth_xform.iv.length)
    IN  [rc_cipher |-> c.err, rc_auth |-> a.err, cipher_iv |-> c.iv,
         auth_iv |-> a.iv, buf |-> d.buf, digest |-> d.digest,
         generate |-> auth_xform.op = "GENERATE"]

\* A classification that takes every status but SUCCESS for a failed check.
classify_strict(status) ==
    IF status = "SUCCESS" THEN [rc_cipher |-> "NONE", rc_auth |-> "NONE"]
    ELSE [rc_cipher |-> "NONE", rc_auth |-> "ICV_CHECK"]

\* The switch on op->status after the dequeue.
classify(status) ==
    CASE status = "SUCCESS" -> [rc_cipher |-> "NONE", rc_auth |-> "NONE"]
      [] status = "AUTH_FAILED" ->
             [rc_cipher |-> "NONE", rc_auth |-> "ICV_CHECK"]
      [] OTHER -> [rc_cipher |-> "NONE", rc_auth |-> "NONE"]

\* rte_crypto_op_alloc takes a descriptor out of crypto_op_pool,
\* rte_crypto_op_free puts one in.  The pool hands out any descriptor it
\* holds; those that are on no queue pair are interchangeable, and the
\* lowest of them stands for all.
PoolIds ==
    LET held == { i \in DOMAIN crypto_op_pool : crypto_op_pool[i] > 0 }
        on == { i \in held : \E qp \in DOMAIN queues :
                                \E k \in 1 .. Len(queues[qp]) :
                                    queues[qp][k] = i }
    IN  on \cup (IF held \ on = {} THEN {} ELSE {SetMin(held \ on)})

op_alloc(pool, desc) == [pool EXCEPT ![desc] = @ - 1]

op_free(pool, desc) == [pool EXCEPT ![desc] = @ + 1]

\* The call's record at entry: nothing done yet, return value -1.  data,
\* digest and buf are the content of the packet the call works on, staged
\* what digest and buf hold when the descriptor has been filled.
IntEntry(pkt_in, session, pkt_out, cipher_iv_ptr, auth_iv_ptr) ==
    [op |-> "int", rc |-> -1, fail |-> "none", handle |-> session,
     pkt_in |-> pkt_in, data |-> pkt_in.data,
     pkt_out |-> pkt_out, cipher_iv_ptr |-> cipher_iv_ptr,
     auth_iv_ptr |-> auth_iv_ptr, allocated |-> FALSE, in_freed |-> FALSE,
     out_freed |-> FALSE, desc |-> 0, rc_cipher |-> "NONE",
     rc_auth |-> "NONE", enqueued |-> FALSE, attempts |-> 0,
     dequeued |-> 0, status |-> "NOT_PROCESSED", out_pkt |-> pkt_out,
     result |-> NoResult, crypto_err |-> FALSE, subtype |-> "BASIC",
     digest |-> pkt_in.digest, buf |-> JunkBytes,
     staged |-> [buf |-> JunkBytes, digest |-> pkt_in.digest],
     cipher_iv |-> "none", auth_iv |-> "none"]

\* The result stage ("Fill in result") and the return of 0.  out_pkt is the
\* packet the results go to, status is op->status at that point.
\* A result stage whose ok looks at the cipher outcome only.
IntResult_cipher_only(c, out_pkt, status, rc_cipher, rc_auth) ==
    [c EXCEPT !.rc = 0, !.out_pkt = out_pkt, !.status = status,
              !.rc_cipher = rc_cipher, !.rc_auth = rc_auth,
              !.subtype = "CRYPTO",
              !.result = [cipher |-> rc_cipher, auth |-> rc_auth,
                          ok |-> rc_cipher = "NONE"],
              !.crypto_err = ~ (rc_cipher = "NONE")]

IntResult(c, out_pkt, status, rc_cipher, rc_auth) ==
    LET ok == (rc_cipher = "NONE") /\ (rc_auth = "NONE")
    IN  [c EXCEPT !.rc = 0, !.out_pkt = out_pkt, !.status = status,
                  !.rc_cipher = rc_cipher, !.rc_auth = rc_auth,
                  !.subtype = "CRYPTO",
                  !.result = [cipher |-> rc_cipher, auth |-> rc_auth,
                              ok |-> ok],
                  !.crypto_err = ~ ok]

\* The err: label: an output packet the call allocated is freed.
IntErr(c, fail) == [c EXCEPT !.fail = fail, !.out_freed = c.allocated]

\* The bytes of the key a transform points to.
KeyBytes(xform) ==
    IF xform.key.data \in DOMAIN rte_heap THEN rte_heap[xform.key.data].bytes
    ELSE 0

\* The IV bytes the descriptor carries: the pointer names the bytes.
IvBytes(place, param_iv_ptr, session_iv_data) ==
    IF place = "param" THEN param_iv_ptr
    ELSE IF place = "session" THEN session_iv_data
    ELSE 0

\* One transform of the chain, by an ideal cipher and MAC, on the payload,
\* the scratch buffer and the status so far.
accel_xform(type, session, c, st) ==
    LET cx == session.cipher_xform
        ax == session.auth_xform
        civ == IvBytes(c.cipher_iv, c.cipher_iv_ptr, session.cipher_iv_data)
        aiv == IvBytes(c.auth_iv, c.auth_iv_ptr, session.auth_iv_data)
    IN  CASE type = "CIPHER" ->
                 IF cx.algo = "CIPHER_NULL" THEN st
                 ELSE [st EXCEPT !.data = cipher(cx.op, KeyBytes(cx), civ, @)]
          [] type = "AUTH" ->
                 IF ax.algo = "AUTH_NULL" \/ ax.digest_length = 0 THEN st
                 ELSE IF ax.op = "GENERATE"
                 THEN [st EXCEPT !.buf = mac(KeyBytes(ax), aiv, st.data)]
                 ELSE IF st.buf = mac(KeyBytes(ax), aiv, st.data) THEN st
                 ELSE [st EXCEPT !.status = "AUTH_FAILED"]
          [] OTHER ->
                 IF cx.op = "ENCRYPT"
                 THEN LET data == cipher("ENCRYPT", KeyBytes(cx), civ, st.data)
                      IN  [st EXCEPT !.data = data,
                                     !.buf = mac(KeyBytes(cx), civ, data)]
                 ELSE [st EXCEPT
                          !.data = cipher("DECRYPT", KeyBytes(cx), civ, @),
                          !.status = IF st.buf = mac(KeyBytes(cx), civ, st.data)
                                     THEN @ ELSE "AUTH_FAILED"]

\* The chain of the session's native object run over the packet.
accel_process(session, c) ==
    LET chain == rte_sessions[session.rte_session].chain
        s0 == [status |-> "SUCCESS", data |-> c.data, buf |-> c.buf]
        s1 == accel_xform(chain[1], session, c, s0)
    IN  IF Len(chain) = 1 THEN s1
        ELSE accel_xform(chain[2], session, c, s1)

\* What a device may hand back for the descriptor: a faithful one the ideal
\* result; any other one any status, with the ideal payload and digest
\* under SUCCESS and the packet as it was under the other statuses.
accel_results(dev, session, c) ==
    LET ideal == accel_process(session, c)
    IN  IF dev.faithful THEN {ideal}
        ELSE { IF status = "SUCCESS" THEN [ideal EXCEPT !.status = status]
               ELSE [status |-> status, data |-> c.data, buf |-> c.buf] :
               status \in Statuses }

\* A result stage that never copies the scratch buffer to the packet.
digest_copied_back_never(session, status) == FALSE

\* The test before odp_packet_copy_from_mem: the scratch buffer goes to
\* the packet's digest location.
digest_copied_back(session, status) ==
    session.p.auth_digest_len # 0 /\ status = "SUCCESS"

\* The accelerator's part between the enqueue and a dequeue that delivers:
\* the descriptor at the head of the queue pair completes with result r,
\* which is the call's own when the descriptor is.  Then the code from
\* `out_pkt = op->sym->m_src` to `return 0`: the descriptor taken from the
\* queue is the one classified and freed, and its packet is the one that
\* gets the result.
IntComplete(c, session, work_pkt, qp, polls, r) ==
    LET q == Append(queues[qp], c.desc)
        op == Head(q)
        out_pkt == IF op = c.desc THEN work_pkt ELSE "old"
        k == classify(r.status)
        data == IF out_pkt = work_pkt THEN r.data ELSE c.data
        buf == IF out_pkt = work_pkt THEN r.buf ELSE c.buf
        digest == IF out_pkt = work_pkt /\ digest_copied_back(session, r.status)
                  THEN buf ELSE c.digest
    IN  /\ queues' = [queues EXCEPT ![qp] = Tail(q)]
        /\ crypto_op_pool' = op_free(op_alloc(crypto_op_pool, c.desc), op)
        /\ last' = IntResult([c EXCEPT !.enqueued = TRUE,
                                       !.attempts = polls + 1,
                                       !.dequeued = op, !.data = data,
                                       !.buf = buf, !.digest = digest],
                             out_pkt, r.status, k.rc_cipher, k.rc_auth)

\* From the enqueue on, on queue pair odp_cpu_id() % cdev_nb_qpairs.  The
\* accelerator takes the descriptor or not (never when the queue pair is
\* full), then leaves `polls` dequeue attempts empty before it delivers (none,
\* as many as the loop retries, or one more); more than MAX_DEQ_RETRIES empty
\* attempts is the timeout, which frees the descriptor and leaves it on the
\* queue pair.
IntSubmit(c, session, work_pkt, f) ==
    \E queue_pair \in { cpu % session.cdev_nb_qpairs :
                            cpu \in 0 .. CpuCount - 1 } :
        LET qp == << session.cdev_id, queue_pair >>
            dev == cdevs[session.cdev_id]
            room == /\ qp \in DOMAIN queues
                    /\ Len(queues[qp]) < NB_DESC_PER_QUEUE_PAIR
        IN  \E enq \in IF ~ room THEN {0}
                       ELSE IF dev.faithful THEN {1} ELSE {0, 1} :
                IF enq = 0
                THEN /\ last' = IntErr(c, "enqueue")
                     /\ UNCHANGED << crypto_op_pool, queues >>
                ELSE \E polls \in {0, MAX_DEQ_RETRIES}
                                  \cup (IF dev.faithful THEN {}
                                        ELSE {MAX_DEQ_RETRIES + 1}) :
                         IF polls > MAX_DEQ_RETRIES
                         THEN /\ queues' = [queues EXCEPT
                                               ![qp] = Append(@, c.desc)]
                              /\ crypto_op_pool' = crypto_op_pool
                              /\ last' = IntErr([c EXCEPT
                                                    !.enqueued = TRUE,
                                                    !.attempts = polls],
                                                "timeout")
                         ELSE \E r \in accel_results(dev, session, c) :
                                  IntComplete(c, session, work_pkt, qp,
                                              polls, r)

\* From the descriptor allocation on; the lock has been taken and, with a
\* descriptor in hand, released.
IntPrepare(c0, session, work_pkt) ==
    \E desc \in PoolIds :
        LET f == IF cipher_is_aead(session.p.cipher_alg)
                 THEN crypto_fill_aead_param(session, c0, c0.cipher_iv_ptr,
                                             c0.auth_iv_ptr)
                 ELSE crypto_fill_sym_param(session, c0, c0.cipher_iv_ptr,
                                            c0.auth_iv_ptr)
            c == [c0 EXCEPT !.desc = desc, !.digest = f.digest,
                            !.staged = [buf |-> f.buf, digest |-> f.digest],
                            !.buf = f.buf, !.cipher_iv = f.cipher_iv,
                            !.auth_iv = f.auth_iv]
        IN  IF f.rc_cipher = "NONE" /\ f.rc_auth = "NONE"
            THEN IntSubmit(c, session, work_pkt, f)
            ELSE /\ last' = IntResult(c, work_pkt, "NOT_PROCESSED",
                                      f.rc_cipher, f.rc_auth)
                 /\ UNCHANGED << crypto_op_pool, queues >>

\* At odp_spinlock_lock.  Without a descriptor the call leaves through err:
\* with the lock still held.
IntLocked(c, session, work_pkt) ==
    IF PoolIds = {}
    THEN /\ lock' = 1
         /\ last' = IntErr(c, "op_alloc")
         /\ UNCHANGED << crypto_op_pool, queues >>
    ELSE /\ lock' = 0
         /\ IntPrepare(c, session, work_pkt)

\* A test for the native session that comes after the output packet has
\* been resolved.
int_no_native_late(c) ==
    [c EXCEPT !.fail = "rte_session", !.allocated = TRUE, !.out_freed = TRUE]

\* `if (rte_session == NULL) return -1`, before anything else is done.
int_no_native(c) == [c EXCEPT !.fail = "rte_session"]

(***************************************************************************)
(* odp_crypto_int(pkt_in, &pkt_out, param) with param->session = session   *)
(* (0 is NULL) and the IV pointers of param (0 is NULL).  pkt_in is the    *)
(* content of the input packet; pkt_out is "INVALID", "in" (the input      *)
(* packet itself) or "out".                                                *)
(***************************************************************************)
crypto_int(pkt_in, session, pkt_out, cipher_iv_ptr, auth_iv_ptr) ==
    LET c == IntEntry(pkt_in, session, pkt_out, cipher_iv_ptr, auth_iv_ptr)
    IN  /\ UNCHANGED << devVars, sessVars >>
        /\ IF session = 0
           THEN /\ last' = [c EXCEPT !.fail = "session"]
                /\ UNCHANGED << lock, crypto_op_pool, queues >>
           ELSE IF sessions[session].rte_session = 0
           THEN /\ last' = int_no_native(c)
                /\ UNCHANGED << lock, crypto_op_pool, queues >>
           ELSE LET s == sessions[session]
                    alloc == pkt_out = "INVALID" /\ s.p.output_pool # 0
                IN  \E got \in IF alloc THEN {"alloc", "INVALID"}
                               ELSE {pkt_out} :
                        LET c1 == [c EXCEPT !.allocated = alloc]
                        IN  IF got = "INVALID"
                            THEN /\ last' = [c1 EXCEPT !.fail = "out_pkt"]
                                 /\ UNCHANGED << lock, crypto_op_pool,
                                                 queues >>
                            ELSE \E copy \in IF got # "in" THEN {0, -1}
                                              ELSE {0} :
                                     IF copy < 0
                                     THEN /\ last' = IntErr(c1, "copy")
                                          /\ UNCHANGED << lock,
                                                 crypto_op_pool, queues >>
                                     ELSE /\ lock = 0
                                          /\ IntLocked([c1 EXCEPT
                                                 !.in_freed = (got # "in")],
                                                 s, got)

\* The call on its own: no other call is in progress.
odp_crypto_int(pkt_in, session, pkt_out, cipher_iv_ptr, auth_iv_ptr) ==
    /\ crypto_int(pkt_in, session, pkt_out, cipher_iv_ptr, auth_iv_ptr)
    /\ UNCHANGED parVars

(***************************************************************************)
(* odp_crypto_op and odp_crypto_op_enq.  param is the array param[], each  *)
(* element the session handle of its item; pkt_out[i] is pkt_in[i].  The   *)
(* entry and each round of the for loop are steps; batch.i is the loop's   *)
(* i, and the return value once pc is "done".  rcs and enq_rcs hold what   *)
(* odp_crypto_int and odp_queue_enq returned for the items gone through    *)
(* ("none": not called), compl the events in each completion queue,        *)
(* oldest first, freed the items whose event odp_event_free got.           *)
(***************************************************************************)
ComplQueues == {1, 2}

IdleBatch ==
    [pc |-> "idle", kind |-> "none", num_pkt |-> 0, param |-> << >>,
     session |-> 0, i |-> 0, rcs |-> << >>, enq_rcs |-> << >>,
     compl |-> [q \in ComplQueues |-> << >>], freed |-> {}]

\* The entry: session is read from param[0], and the loop starts at i = 0.
batch_begin(kind, param) ==
    /\ batch.pc # "run"
    /\ batch' = [IdleBatch EXCEPT
                    !.pc = IF Len(param) = 0 THEN "done" ELSE "run",
                    !.kind = kind, !.num_pkt = Len(param), !.param = param,
                    !.session = IF Len(param) = 0 THEN 0 ELSE param[1]]
    /\ UNCHANGED << devVars, lock, sessVars, opVars, calls, m_src, last >>

\* The end of a round of the loop: break when rc < 0 or when odp_queue_enq
\* failed, i++ otherwise, and return i when the loop is left.
batch_round(rc, enq_rc) ==
    LET stop == rc < 0 \/ enq_rc = "fail"
        i == IF stop THEN batch.i ELSE batch.i + 1
    IN  [batch EXCEPT
            !.rcs = Append(@, rc),
            !.enq_rcs = Append(@, enq_rc),
            !.i = i,
            !.pc = IF stop \/ ~ (i < batch.num_pkt) THEN "done" ELSE "run",
            !.compl = IF enq_rc = "ok"
                      THEN [@ EXCEPT
                               ![sessions[batch.session].p.compl_queue] =
                                   Append(@, batch.i)]
                      ELSE @,
            !.freed = IF enq_rc = "fail" THEN @ \cup {batch.i} ELSE @]

odp_crypto_op(param) == batch_begin("op", param)

\* A round of odp_crypto_op's loop.
crypto_op_round ==
    /\ batch.pc = "run" /\ batch.kind = "op"
    /\ crypto_int(FreshPkt, batch.param[batch.i + 1], "in", 1, 0)
    /\ batch' = batch_round(last'.rc, "none")
    /\ UNCHANGED << calls, m_src >>

odp_crypto_op_enq(param) == batch_begin("op_enq", param)

\* A round of odp_crypto_op_enq's loop; enq is what odp_queue_enq returns.
crypto_op_enq_round(enq) ==
    /\ batch.pc = "run" /\ batch.kind = "op_enq"
    /\ crypto_int(FreshPkt, batch.param[batch.i + 1], "in", 1, 0)
    /\ batch' = batch_round(last'.rc,
                            IF last'.rc < 0 THEN "none"
                            ELSE IF enq = 0 THEN "ok" ELSE "fail")
    /\ UNCHANGED << calls, m_src >>

(***************************************************************************)
(* odp_crypto_int run by several threads at once: the same code, cut where *)
(* it touches what the threads share.  calls[t] is thread t's call: pc is  *)
(* "idle" (no call), "alloc" (at odp_spinlock_lock), "submit" (descriptor  *)
(* in hand, lock released) or "poll" (in the dequeue loop); c is the       *)
(* call's record so far, work_pkt the packet it works on, queue_pair the   *)
(* queue pair it enqueued on.  A call that returns leaves its record in    *)
(* `last`.  A packet of another call, running or returned, is "old".       *)
(***************************************************************************)
IdleCall ==
    [pc |-> "idle", c |-> IntEntry(FreshPkt, 0, "in", 0, 0),
     work_pkt |-> "in", queue_pair |-> 0, retry_count |-> 0]

\* The call of thread t returns with record c.
IntReturn(t, c) ==
    /\ last' = c
    /\ calls' = [calls EXCEPT ![t] = IdleCall]
    /\ m_src' = [i \in DOMAIN m_src |-> IF m_src[i] = t THEN 0 ELSE m_src[i]]

\* From the entry to odp_spinlock_lock.
int_begin(t, pkt_in, session, pkt_out, cipher_iv_ptr, auth_iv_ptr) ==
    LET c == IntEntry(pkt_in, session, pkt_out, cipher_iv_ptr, auth_iv_ptr)
    IN  /\ calls[t].pc = "idle"
        /\ UNCHANGED << devVars, sessVars, lock, opVars, batch >>
        /\ IF session = 0
           THEN IntReturn(t, [c EXCEPT !.fail = "session"])
           ELSE IF sessions[session].rte_session = 0
           THEN IntReturn(t, [c EXCEPT !.fail = "rte_session"])
           ELSE LET s == sessions[session]
                    alloc == pkt_out = "INVALID" /\ s.p.output_pool # 0
                IN  \E got \in IF alloc THEN {"alloc", "INVALID"}
                               ELSE {pkt_out} :
                        LET c1 == [c EXCEPT !.allocated = alloc]
                        IN  IF got = "INVALID"
                            THEN IntReturn(t, [c1 EXCEPT !.fail = "out_pkt"])
                            ELSE \E copy \in IF got # "in" THEN {0, -1}
                                              ELSE {0} :
                                     IF copy < 0
                                     THEN IntReturn(t, IntErr(c1, "copy"))
                                     ELSE /\ calls' = [calls EXCEPT ![t] =
                                                 [pc |-> "alloc",
                                                  c |-> [c1 EXCEPT !.in_freed =
                                                            (got # "in")],
                                                  work_pkt |-> got,
                                                  queue_pair |-> 0,
                                                  retry_count |-> 0]]
                                          /\ UNCHANGED << m_src, last >>

\* odp_spinlock_lock, rte_crypto_op_alloc and, with a descriptor in hand,
\* odp_spinlock_unlock; without one the call leaves through err: with the
\* lock held.  The thread spins while another holds the lock.
int_alloc(t) ==
    /\ calls[t].pc = "alloc"
    /\ lock = 0
    /\ UNCHANGED << devVars, sessVars, queues, batch >>
    /\ IF PoolIds = {}
       THEN /\ lock' = 1
            /\ IntReturn(t, IntErr(calls[t].c, "op_alloc"))
            /\ UNCHANGED crypto_op_pool
       ELSE \E desc \in PoolIds :
                /\ lock' = 0
                /\ crypto_op_pool' = op_alloc(crypto_op_pool, desc)
                /\ calls' = [calls EXCEPT ![t].pc = "submit",
                                          ![t].c.desc = desc]
                /\ UNCHANGED << m_src, last >>

\* The parameter fill and, when it found no fault, the enqueue.
int_submit(t) ==
    LET c0 == calls[t].c
        session == sessions[c0.handle]
        work_pkt == calls[t].work_pkt
        f == IF cipher_is_aead(session.p.cipher_alg)
             THEN crypto_fill_aead_param(session, c0, c0.cipher_iv_ptr,
                                         c0.auth_iv_ptr)
             ELSE crypto_fill_sym_param(session, c0, c0.cipher_iv_ptr,
                                        c0.auth_iv_ptr)
        c == [c0 EXCEPT !.digest = f.digest, !.buf = f.buf,
                        !.staged = [buf |-> f.buf, digest |-> f.digest],
                        !.cipher_iv = f.cipher_iv, !.auth_iv = f.auth_iv]
    IN  /\ calls[t].pc = "submit"
        /\ UNCHANGED << devVars, sessVars, lock, batch >>
        /\ IF f.rc_cipher # "NONE" \/ f.rc_auth # "NONE"
           THEN /\ crypto_op_pool' = op_free(crypto_op_pool, c.desc)
                /\ IntReturn(t, IntResult(c, work_pkt, "NOT_PROCESSED",
                                          f.rc_cipher, f.rc_auth))
                /\ UNCHANGED queues
           ELSE \E queue_pair \in { cpu % session.cdev_nb_qpairs :
                                       cpu \in 0 .. CpuCount - 1 } :
                    LET qp == << session.cdev_id, queue_pair >>
                        dev == cdevs[session.cdev_id]
                        room == /\ qp \in DOMAIN queues
                                /\ Len(queues[qp]) < NB_DESC_PER_QUEUE_PAIR
                    IN  \E enq \in IF ~ room THEN {0}
                                   ELSE IF dev.faithful THEN {1} ELSE {0, 1} :
                            IF enq = 0
                            THEN /\ crypto_op_pool' =
                                        op_free(crypto_op_pool, c.desc)
                                 /\ IntReturn(t, IntErr(c, "enqueue"))
                                 /\ UNCHANGED queues
                            ELSE /\ queues' = [queues EXCEPT
                                                  ![qp] = Append(@, c.desc)]
                                 /\ m_src' = [m_src EXCEPT ![c.desc] = t]
                                 /\ calls' = [calls EXCEPT
                                       ![t].pc = "poll",
                                       ![t].c = [c EXCEPT !.enqueued = TRUE],
                                       ![t].queue_pair = queue_pair]
                                 /\ UNCHANGED << crypto_op_pool, last >>

\* A dequeue loop whose retry count has no ceiling.
dequeue_retry_unbounded(retry_count) == TRUE

\* The loop's test of retry_count after an empty dequeue.
dequeue_retry(retry_count) == retry_count < MAX_DEQ_RETRIES

\* One rte_cryptodev_dequeue_burst of the loop and what follows it.  The
\* device hands back the descriptor at the head of the queue pair or
\* nothing yet (a faithful device something by the last attempt).  An
\* empty attempt is retried up to the ceiling and then is the timeout; a
\* descriptor is classified, gets the result and is freed, whoever
\* enqueued it.
int_dequeue(t) ==
    LET c == calls[t].c
        session == sessions[c.handle]
        work_pkt == calls[t].work_pkt
        qp == << session.cdev_id, calls[t].queue_pair >>
        dev == cdevs[session.cdev_id]
        retry_count == calls[t].retry_count
        c1 == [c EXCEPT !.attempts = @ + 1]
    IN  /\ calls[t].pc = "poll"
        /\ UNCHANGED << devVars, sessVars, lock, batch >>
        /\ \E rc \in (IF queues[qp] # << >> THEN {1} ELSE {})
                     \cup (IF dev.faithful /\ queues[qp] # << >>
                              /\ ~ dequeue_retry(retry_count)
                           THEN {} ELSE {0}) :
               IF rc = 0 /\ dequeue_retry(retry_count)
               THEN /\ calls' = [calls EXCEPT ![t].c = c1,
                                              ![t].retry_count = @ + 1]
                    /\ UNCHANGED << opVars, m_src, last >>
               ELSE IF rc = 0
               THEN /\ crypto_op_pool' = op_free(crypto_op_pool, c.desc)
                    /\ IntReturn(t, IntErr(c1, "timeout"))
                    /\ UNCHANGED queues
               ELSE LET op == Head(queues[qp])
                        mine == m_src[op] = t
                        out_pkt == IF mine THEN work_pkt ELSE "old"
                    IN  \E r \in accel_results(dev, session, c) :
                            LET k == classify(r.status)
                                data == IF mine THEN r.data ELSE c.data
                                buf == IF mine THEN r.buf ELSE c.buf
                                digest ==
                                    IF /\ mine
                                       /\ digest_copied_back(session,
                                                             r.status)
                                    THEN buf ELSE c.digest
                            IN  /\ queues' = [queues EXCEPT ![qp] = Tail(@)]
                                /\ crypto_op_pool' =
                                       op_free(crypto_op_pool, op)
                                /\ IntReturn(t,
                                       IntResult([c1 EXCEPT
                                                     !.dequeued = op,
                                                     !.data = data,
                                                     !.buf = buf,
                                                     !.digest = digest],
                                                 out_pkt, r.status,
                                                 k.rc_cipher, k.rc_auth))

(***************************************************************************)
(* odp_crypto_init_global on a platform with the devices devs and an       *)
(* rte_malloc heap of heap_size buffers: the pool is                       *)
(* cleared, every slot is pushed on the free list (so the last slot is its *)
(* head), and the devices are configured from the last to the first.  With *)
(* no device the function returns 0 with the lock still held.              *)
(***************************************************************************)
InitFreeList == [i \in 1 .. MAX_SESSIONS |-> MAX_SESSIONS + 1 - i]

InitGlobal(devs, heap_size) ==
    /\ cdevs = devs
    /\ crypto_global_shm = "reserved"
    /\ crypto_op_mempool = IF rte_cryptodev_count = 0 THEN "NULL" ELSE "created"
    /\ rte_heap_size = heap_size
    /\ enabled_crypto_devs = rte_cryptodev_count
    /\ enabled_crypto_dev_ids =
           [k \in 0 .. rte_cryptodev_count - 1 |-> rte_cryptodev_count - 1 - k]
    /\ enabled_crypto_dev_nb_qpairs =
           [k \in 0 .. rte_cryptodev_count - 1 |->
               Min(CpuCount,
                   cdevs[rte_cryptodev_count - 1 - k].max_nb_queue_pairs)]
    /\ lock = IF rte_cryptodev_count = 0 THEN 1 ELSE 0
    /\ free = InitFreeList
    /\ sessions = [s \in Slots |-> ZeroSession]
    /\ rte_heap = << >>
    /\ rte_sessions = << >>
    /\ crypto_op_pool =
           [i \in 1 .. NB_MBUF |-> IF rte_cryptodev_count = 0 THEN 0 ELSE 1]
    /\ queues =
           [qp \in { << d, q >> \in (DOMAIN cdevs) \X (0 .. CpuCount - 1) :
                        q < Min(CpuCount, cdevs[d].max_nb_queue_pairs) }
               |-> << >>]
    /\ live = {}
    /\ calls = [t \in Threads |-> IdleCall]
    /\ batch = IdleBatch
    /\ m_src = [i \in 1 .. NB_MBUF |-> 0]
    /\ last = NoCall

Init == \E devs \in DevConfigs : InitGlobal(devs, HeapSize)

Next ==
    \/ \E param \in SessionParams, accel \in AccelCreate :
           odp_crypto_session_create(param, accel)
    \/ \E session \in Slots, accel \in AccelDestroy :
           odp_crypto_session_destroy(session, accel)

Spec == Init /\ [][Next]_vars

\* The operation engine run on one session at a time, made from OpParams.
\* A call that names no session or a slot without a native session returns
\* before it reads its other arguments, and an AEAD session's call does not
\* read the auth IV pointer.
NextOp ==
    \/ \E param \in OpParams :
           live = {} /\ odp_crypto_session_create(param, "ok")
    \/ \E session \in Slots, accel \in AccelDestroy :
           odp_crypto_session_destroy(session, accel)
    \/ \E session \in 0 .. MAX_SESSIONS :
           \E pkt_out \in IF session \in live THEN {"INVALID", "in", "out"}
                          ELSE {"in"},
              cipher_iv_ptr \in IF session \in live THEN {0, 1} ELSE {0},
              auth_iv_ptr \in IF /\ session \in live
                                 /\ ~ cipher_is_aead(sessions[session].p.cipher_alg)
                              THEN {0, 1} ELSE {0} :
               odp_crypto_int(FreshPkt, session, pkt_out, cipher_iv_ptr,
                              auth_iv_ptr)

\* The platform of the operation engine's runs: one device.
InitOp == Init /\ rte_cryptodev_count = 1

SpecOp == InitOp /\ [][NextOp]_vars

(***************************************************************************)
(* Device selection and the transform chain: one create at a time, over    *)
(* every combination of direction, auth_cipher_text and NULL or AES-CBC    *)
(* with NULL or HMAC-SHA256, and AES-GCM, on platforms where none, one or  *)
(* two devices pass.                                                       *)
(***************************************************************************)
SelParam(op, auth_cipher_text, cipher_alg, auth_alg) ==
    [ParamInit EXCEPT
        !.op = op, !.auth_cipher_text = auth_cipher_text,
        !.cipher_alg = cipher_alg,
        !.cipher_key = IF cipher_alg = "NULL" THEN @
                       ELSE [data |-> 101, length |-> 16],
        !.cipher_iv = IF cipher_alg = "NULL" THEN @
                      ELSE [data |-> 0, length |-> 16],
        !.auth_alg = auth_alg,
        !.auth_key = IF auth_alg = "NULL" THEN @
                     ELSE [data |-> 102, length |-> 32],
        !.auth_digest_len = IF auth_alg = "NULL" THEN 0 ELSE 32]

\* AES-128-GCM with more AAD than DevMB and DevGCM advertise.
P_GcmLongAad == [P_Gcm EXCEPT !.auth_aad_len = 20]

SelParams ==
    { SelParam(op, auth_cipher_text, cipher_alg, auth_alg) :
          op \in {"ENCODE", "DECODE"}, auth_cipher_text \in BOOLEAN,
          cipher_alg \in {"NULL", "AES_CBC"},
          auth_alg \in {"NULL", "SHA256_HMAC"} }
    \cup {P_Gcm, P_GcmLongAad}

SelConfigs ==
    { Arr(<< DevMB >>), Arr(<< DevNull, DevMB >>), Arr(<< DevMB, DevGCM >>) }

NextSel ==
    \/ \E param \in SelParams :
           live = {} /\ odp_crypto_session_create(param, "ok")
    \/ \E session \in Slots : odp_crypto_session_destroy(session, "ok")

InitSel == \E devs \in SelConfigs : InitGlobal(devs, HeapSize)

SpecSel == InitSel /\ [][NextSel]_vars

(***************************************************************************)
(* odp_crypto_term_global.  shm_ret is what odp_shm_free answers.  The     *)
(* call initialises the lock again, takes it, walks the free list, frees   *)
(* the descriptor pool when there is one, drops the lock and frees the     *)
(* shared memory.                                                          *)
(***************************************************************************)
\* The module is initialised and has not been terminated.
Initialized ==
    crypto_global_shm = "reserved" /\ crypto_op_mempool # "freed"

\* The return value when the count of the free list is not looked at.
term_global_rc_nocount(count, ret) == IF ret < 0 THEN -1 ELSE 0

\* The return value: -1 when count is not MAX_SESSIONS or ret < 0.
term_global_rc(count, ret) ==
    IF count # MAX_SESSIONS \/ ret < 0 THEN -1 ELSE 0

odp_crypto_term_global(shm_ret) ==
    /\ Initialized
    /\ lock' = 0
    /\ crypto_op_mempool' =
           IF crypto_op_mempool # "NULL" THEN "freed" ELSE crypto_op_mempool
    /\ crypto_global_shm' = IF shm_ret < 0 THEN crypto_global_shm ELSE "freed"
    /\ last' = [op |-> "term", rc |-> term_global_rc(Len(free), shm_ret),
                count |-> Len(free), shm_ret |-> shm_ret]
    /\ UNCHANGED << cdevs, enabled_crypto_devs, enabled_crypto_dev_ids,
                    enabled_crypto_dev_nb_qpairs, rte_heap_size, sessVars,
                    opVars, parVars >>

\* Sessions are created and destroyed, and then the module is terminated.
NextTerm ==
    \/ Initialized /\ Next
    \/ \E shm_ret \in {0, -1} : odp_crypto_term_global(shm_ret)

SpecTerm == Init /\ [][NextTerm]_vars

(***************************************************************************)
(* The capability queries.  An algorithm set (odp_crypto_cipher_algos_t,   *)
(* odp_crypto_auth_algos_t) is the set of the names of its bits that are   *)
(* 1.  The array dst[] of a capability query is a sequence of num_copy     *)
(* entries, which hold CallerCipherEntry / CallerAuthEntry where the call  *)
(* has not written.                                                        *)
(***************************************************************************)
cipher_is_bit_mode(cipher_alg) ==
    cipher_alg \in {"KASUMI_F8", "SNOW3G_UEA2", "ZUC_EEA3"}

auth_is_bit_mode(auth_alg) ==
    auth_alg \in {"KASUMI_F9", "SNOW3G_UIA2", "ZUC_EIA3"}

auth_is_aead(auth_alg) == auth_alg \in {"AES_GCM", "AES_CCM"}

auth_aead_alg_odp_to_rte(auth_alg) ==
    CASE auth_alg = "AES_GCM" -> "AEAD_AES_GCM"
      [] auth_alg = "AES_CCM" -> "AEAD_AES_CCM"
      [] OTHER -> "UNMAPPED"

\* The bits capability_process sets for one capability entry.
cap_cipher_bits(cap) ==
    IF cap.xform_type = "CIPHER"
    THEN CASE cap.algo = "CIPHER_3DES_CBC" -> {"trides_cbc", "des"}
           [] cap.algo = "CIPHER_AES_CBC" -> {"aes_cbc"}
           [] cap.algo = "CIPHER_AES_CTR" -> {"aes_ctr"}
           [] cap.algo = "CIPHER_KASUMI_F8" -> {"kasumi_f8"}
           [] cap.algo = "CIPHER_SNOW3G_UEA2" -> {"snow3g_uea2"}
           [] cap.algo = "CIPHER_ZUC_EEA3" -> {"zuc_eea3"}
           [] OTHER -> {}
    ELSE IF cap.xform_type = "AEAD" /\ cap.algo = "AEAD_AES_GCM"
    THEN {"aes_gcm"}
    ELSE {}

cap_auth_bits(cap) ==
    IF cap.xform_type = "AUTH"
    THEN CASE cap.algo = "AUTH_MD5_HMAC" -> {"md5_hmac"}
           [] cap.algo = "AUTH_SHA256_HMAC" -> {"sha256_hmac"}
           [] cap.algo = "AUTH_SHA1_HMAC" -> {"sha1_hmac"}
           [] cap.algo = "AUTH_SHA512_HMAC" -> {"sha512_hmac"}
           [] cap.algo = "AUTH_AES_GMAC" -> {"aes_gmac"}
           [] cap.algo = "AUTH_AES_CMAC" -> {"aes_cmac"}
           [] cap.algo = "AUTH_SNOW3G_UIA2" -> {"snow3g_uia2"}
           [] cap.algo = "AUTH_ZUC_EIA3" -> {"zuc_eia3"}
           [] OTHER -> {}
    ELSE IF cap.xform_type = "AEAD" /\ cap.algo = "AEAD_AES_GCM"
    THEN {"aes_gcm"}
    ELSE {}

\* capability_process without the two lines that set the null bits.
capability_process_nonull(dev_info, ciphers, auths) ==
    LET caps == { dev_info.capabilities[i] :
                      i \in 1 .. Len(dev_info.capabilities) }
    IN  [ciphers |-> ciphers \cup UNION { cap_cipher_bits(cap) : cap \in caps },
         auths |-> auths \cup UNION { cap_auth_bits(cap) : cap \in caps }]

capability_process(dev_info, ciphers, auths) ==
    LET caps == { dev_info.capabilities[i] :
                      i \in 1 .. Len(dev_info.capabilities) }
    IN  [ciphers |-> ciphers \cup {"null"}
                     \cup UNION { cap_cipher_bits(cap) : cap \in caps },
         auths |-> auths \cup {"null"}
                   \cup UNION { cap_auth_bits(cap) : cap \in caps }]

\* memset(capability, 0, ...) and the two modes.
ZeroCapability ==
    [sync_mode |-> "YES", async_mode |-> "PREFERRED", ciphers |-> {},
     auths |-> {}, hw_ciphers |-> {}, hw_auths |-> {}, max_sessions |-> 0]

\* The two statements of the loop body on max_sessions.
max_sessions_step(max_sessions, dev_max) ==
    LET lowest == IF max_sessions > dev_max THEN dev_max ELSE max_sessions
    IN  IF lowest = 0 THEN dev_max ELSE lowest

\* The device loop of odp_crypto_capability, from cdev_id on.
RECURSIVE capability_loop(_, _)
capability_loop(cdev_id, capability) ==
    IF ~ (cdev_id < rte_cryptodev_count) THEN capability
    ELSE LET dev_info == cdevs[cdev_id]
             algos == capability_process(dev_info, capability.ciphers,
                                         capability.auths)
             hw == dev_info.hw_accelerated
         IN  capability_loop(cdev_id + 1,
                 [capability EXCEPT
                     !.ciphers = algos.ciphers,
                     !.auths = algos.auths,
                     !.hw_ciphers = IF hw THEN algos.ciphers ELSE @,
                     !.hw_auths = IF hw THEN algos.auths ELSE @,
                     !.max_sessions =
                         max_sessions_step(@, dev_info.max_nb_sessions)])

\* odp_crypto_capability with a capability that is not NULL: the return
\* value and what *capability holds afterwards.
crypto_capability ==
    IF rte_cryptodev_count = 0
    THEN [rc |-> -1, capability |-> ZeroCapability]
    ELSE LET cap == capability_loop(0, ZeroCapability)
         IN  [rc |-> 0,
              capability |->
                  [cap EXCEPT !.max_sessions =
                                  IF @ > MAX_SESSIONS THEN MAX_SESSIONS ELSE @]]

odp_crypto_capability ==
    /\ last' = [op |-> "capability"] @@ crypto_capability
    /\ UNCHANGED << devVars, lock, sessVars, opVars, parVars >>

\* The values a loop for (x = min; x <= max; x += increment), left after
\* one round when increment is 0, gives x, from x on.  The counters of
\* cipher_gen_capability are uint32_t and cannot wrap on uint16_t ranges;
\* those of auth_gen_capability are uint16_t.
RECURSIVE range_sizes32(_, _)
range_sizes32(x, range) ==
    IF x > range.max THEN << >>
    ELSE << x >> \o (IF range.increment = 0 THEN << >>
                     ELSE range_sizes32(x + range.increment, range))

RECURSIVE range_sizes16(_, _)
range_sizes16(x, range) ==
    IF x > range.max THEN << >>
    ELSE << x >> \o (IF range.increment = 0 THEN << >>
                     ELSE range_sizes16((x + range.increment) % UINT16, range))

RECURSIVE Flatten(_)
Flatten(seqs) ==
    IF seqs = << >> THEN << >> ELSE Head(seqs) \o Flatten(Tail(seqs))

\* What dst[] entries hold before the call, and what the entries of the
\* local array src[] hold before they are written.
CallerCipherEntry == [key_len |-> -1, iv_len |-> -1, bit_mode |-> FALSE]

JunkCipherEntry == [key_len |-> -2, iv_len |-> -2, bit_mode |-> FALSE]

ZeroCipherEntry == [key_len |-> 0, iv_len |-> 0, bit_mode |-> FALSE]

CallerAuthEntry ==
    [key_len |-> -1, digest_len |-> -1, iv_len |-> -1,
     aad_len |-> [min |-> -1, max |-> -1, inc |-> -1], bit_mode |-> FALSE]

JunkAuthEntry ==
    [key_len |-> -2, digest_len |-> -2, iv_len |-> -2,
     aad_len |-> [min |-> -2, max |-> -2, inc |-> -2], bit_mode |-> FALSE]

ZeroAuthEntry ==
    [key_len |-> 0, digest_len |-> 0, iv_len |-> 0,
     aad_len |-> [min |-> 0, max |-> 0, inc |-> 0], bit_mode |-> FALSE]

\* The variants the loops of cipher_gen_capability go through, in order.
cipher_gen_variants(key_size, iv_size, bit_mode) ==
    LET keys == range_sizes32(key_size.min, key_size)
        ivs == range_sizes32(iv_size.min, iv_size)
    IN  Flatten([k \in 1 .. Len(keys) |->
                    [i \in 1 .. Len(ivs) |->
                        [key_len |-> keys[k], iv_len |-> ivs[i],
                         bit_mode |-> bit_mode]]])

\* The variants the loops of auth_gen_capability go through, in order.
auth_gen_variants(key_size, iv_size, digest_size, aad_size, bit_mode) ==
    LET digests == range_sizes16(digest_size.min, digest_size)
        keys == range_sizes16(key_size.min, key_size)
        ivs == range_sizes16(iv_size.min, iv_size)
    IN  Flatten([d \in 1 .. Len(digests) |->
            Flatten([k \in 1 .. Len(keys) |->
                [i \in 1 .. Len(ivs) |->
                    [key_len |-> keys[k], digest_len |-> digests[d],
                     iv_len |-> ivs[i],
                     aad_len |-> [min |-> aad_size.min, max |-> aad_size.max,
                                  inc |-> aad_size.increment],
                     bit_mode |-> bit_mode]]])])

\* cipher_gen_capability and auth_gen_capability called with src + idx and
\* num_copy - idx: variant number v (from 0) is stored at src[idx + v] when
\* v < num_copy - idx, and every variant is counted.
gen_capability(variants, src, idx, num_copy) ==
    [idx |-> idx + Len(variants),
     src |-> [p \in 1 .. Len(src) |->
                 IF p - 1 >= idx /\ p - 1 - idx < Len(variants)
                    /\ p - 1 - idx < num_copy - idx
                 THEN variants[p - idx] ELSE src[p]]]

\* The number of entries memcpy copies to dst[], when it copies num_copy
\* entries whatever idx is.
copy_count_all(idx, num_copy) == num_copy

\* The number of entries memcpy copies to dst[].
copy_count(idx, num_copy) == IF idx < num_copy THEN idx ELSE num_copy

\* The end of the four functions: the clamp, the memcpy and the return.
capability_return(st, dst, num_copy) ==
    [rc |-> st.idx,
     dst |-> [p \in 1 .. Len(dst) |->
                 IF p <= copy_count(st.idx, num_copy) THEN st.src[p]
                 ELSE dst[p]]]

\* The device loop of cipher_aead_capability and of cipher_capability, from
\* cdev_id on; st is idx and src[].
RECURSIVE cipher_capability_loop(_, _, _, _, _, _)
cipher_capability_loop(type, algo, bit_mode, cdev_id, st, num_copy) ==
    IF ~ (cdev_id < rte_cryptodev_count) THEN st
    ELSE LET c == FindCap(cdevs[cdev_id], type, algo)
             cap == cdevs[cdev_id].capabilities[c]
         IN  cipher_capability_loop(type, algo, bit_mode, cdev_id + 1,
                 IF c = 0 THEN st
                 ELSE gen_capability(
                          cipher_gen_variants(cap.key_size, cap.iv_size,
                                              bit_mode),
                          st.src, st.idx, num_copy),
                 num_copy)

cipher_aead_capability(cipher_alg, dst, num_copy) ==
    IF cipher_aead_alg_odp_to_rte(cipher_alg) = "UNMAPPED" \/ rte_cryptodev_count = 0
    THEN [rc |-> -1, dst |-> dst]
    ELSE capability_return(
             cipher_capability_loop("AEAD", cipher_aead_alg_odp_to_rte(cipher_alg),
                 cipher_is_bit_mode(cipher_alg), 0,
                 [idx |-> 0, src |-> [p \in 1 .. num_copy |-> JunkCipherEntry]],
                 num_copy),
             dst, num_copy)

cipher_capability(cipher_alg, dst, num_copy) ==
    IF cipher_alg_odp_to_rte(cipher_alg) = "UNMAPPED" \/ rte_cryptodev_count = 0
    THEN [rc |-> -1, dst |-> dst]
    ELSE capability_return(
             cipher_capability_loop("CIPHER", cipher_alg_odp_to_rte(cipher_alg),
                 cipher_is_bit_mode(cipher_alg), 0,
                 [idx |-> 0, src |-> [p \in 1 .. num_copy |-> JunkCipherEntry]],
                 num_copy),
             dst, num_copy)

\* The NULL branch with a second entry that is all zero too.
null_capability_nobit(zero, dst, num_copy) ==
    [rc |-> 2,
     dst |-> [p \in 1 .. Len(dst) |->
                 IF p <= 2 /\ num_copy >= p THEN zero ELSE dst[p]]]

\* The NULL branch of odp_crypto_cipher_capability and of
\* odp_crypto_auth_capability, with the return value 2.
null_capability(zero, dst, num_copy) ==
    [rc |-> 2,
     dst |-> [p \in 1 .. Len(dst) |->
                 IF p = 1 /\ num_copy >= 1 THEN zero
                 ELSE IF p = 2 /\ num_copy >= 2
                 THEN [zero EXCEPT !.bit_mode = TRUE]
                 ELSE dst[p]]]

crypto_cipher_capability(cipher_alg, dst, num_copy) ==
    IF cipher_alg = "NULL" THEN null_capability(ZeroCipherEntry, dst, num_copy)
    ELSE IF cipher_is_aead(cipher_alg)
    THEN cipher_aead_capability(cipher_alg, dst, num_copy)
    ELSE cipher_capability(cipher_alg, dst, num_copy)

\* The key size auth_capability's switch puts in key_size_override.
key_size_override(auth_alg) ==
    CASE auth_alg = "MD5_HMAC" -> 16
      [] auth_alg = "SHA1_HMAC" -> 20
      [] auth_alg = "SHA256_HMAC" -> 32
      [] auth_alg = "SHA384_HMAC" -> 48
      [] auth_alg = "SHA512_HMAC" -> 64
      [] OTHER -> 0

\* The device loop of auth_aead_capability, from cdev_id on.
RECURSIVE auth_aead_capability_loop(_, _, _, _, _)
auth_aead_capability_loop(algo, bit_mode, cdev_id, st, num_copy) ==
    IF ~ (cdev_id < rte_cryptodev_count) THEN st
    ELSE LET c == FindCap(cdevs[cdev_id], "AEAD", algo)
             cap == cdevs[cdev_id].capabilities[c]
         IN  auth_aead_capability_loop(algo, bit_mode, cdev_id + 1,
                 IF c = 0 THEN st
                 ELSE gen_capability(
                          auth_gen_variants(zero_range, zero_range,
                              cap.digest_size, cap.aad_size, bit_mode),
                          st.src, st.idx, num_copy),
                 num_copy)

auth_aead_capability(auth_alg, dst, num_copy) ==
    IF auth_aead_alg_odp_to_rte(auth_alg) = "UNMAPPED" \/ rte_cryptodev_count = 0
    THEN [rc |-> -1, dst |-> dst]
    ELSE capability_return(
             auth_aead_capability_loop(auth_aead_alg_odp_to_rte(auth_alg),
                 auth_is_bit_mode(auth_alg), 0,
                 [idx |-> 0, src |-> [p \in 1 .. num_copy |-> JunkAuthEntry]],
                 num_copy),
             dst, num_copy)

\* The device loop of auth_capability, from cdev_id on.
RECURSIVE auth_capability_loop(_, _, _, _, _, _)
auth_capability_loop(algo, override, bit_mode, cdev_id, st, num_copy) ==
    IF ~ (cdev_id < rte_cryptodev_count) THEN st
    ELSE LET c == FindCap(cdevs[cdev_id], "AUTH", algo)
             cap == cdevs[cdev_id].capabilities[c]
         IN  auth_capability_loop(algo, override, bit_mode, cdev_id + 1,
                 IF c = 0 THEN st
                 ELSE IF override # 0
                         /\ is_valid_size(override, cap.key_size) # 0
                 THEN st
                 ELSE gen_capability(
                          auth_gen_variants(
                              IF override # 0
                              THEN Range(override, override, 0)
                              ELSE cap.key_size,
                              cap.iv_size, cap.digest_size, cap.aad_size,
                              bit_mode),
                          st.src, st.idx, num_copy),
                 num_copy)

auth_capability(auth_alg, dst, num_copy) ==
    IF auth_alg_odp_to_rte(auth_alg) = "UNMAPPED" \/ rte_cryptodev_count = 0
    THEN [rc |-> -1, dst |-> dst]
    ELSE capability_return(
             auth_capability_loop(auth_alg_odp_to_rte(auth_alg),
                 key_size_override(auth_alg), auth_is_bit_mode(auth_alg), 0,
                 [idx |-> 0, src |-> [p \in 1 .. num_copy |-> JunkAuthEntry]],
                 num_copy),
             dst, num_copy)

crypto_auth_capability(auth_alg, dst, num_copy) ==
    IF auth_alg = "NULL" THEN null_capability(ZeroAuthEntry, dst, num_copy)
    ELSE IF auth_is_aead(auth_alg) THEN auth_aead_capability(auth_alg, dst, num_copy)
    ELSE auth_capability(auth_alg, dst, num_copy)

odp_crypto_cipher_capability(cipher_alg, num_copy) ==
    /\ last' = [op |-> "cipher_capability", alg |-> cipher_alg,
                num_copy |-> num_copy]
               @@ crypto_cipher_capability(cipher_alg,
                      [p \in 1 .. num_copy |-> CallerCipherEntry], num_copy)
    /\ UNCHANGED << devVars, lock, sessVars, opVars, parVars >>

odp_crypto_auth_capability(auth_alg, num_copy) ==
    /\ last' = [op |-> "auth_capability", alg |-> auth_alg,
                num_copy |-> num_copy]
               @@ crypto_auth_capability(auth_alg,
                      [p \in 1 .. num_copy |-> CallerAuthEntry], num_copy)
    /\ UNCHANGED << devVars, lock, sessVars, opVars, parVars >>

(***************************************************************************)
(* The capability queries on every list of up to MaxDevs devices: the      *)
(* multi-buffer device with each of three session limits, the GCM device   *)
(* and the null device.                                                    *)
(***************************************************************************)
MaxDevs == 2

\* The largest small capacity, and a capacity no total reaches.
MaxCopy == 4

LargeCopy == 100

Capacities == 0 .. MaxCopy \cup {LargeCopy}

SessionLimits == {0, 1, MAX_SESSIONS + 1}

CapDevs ==
    { [DevMB EXCEPT !.max_nb_sessions = n] : n \in SessionLimits }
    \cup { [DevGCM EXCEPT !.max_nb_sessions = 1], DevNull }

CapConfigs ==
    UNION { { Arr(seq) : seq \in [1 .. n -> CapDevs] } : n \in 0 .. MaxDevs }

CapCiphers == {"NULL", "AES_CBC", "AES_GCM", "3DES_CBC", "CHACHA20"}

CapAuths == {"NULL", "SHA256_HMAC", "AES_GMAC", "AES_GCM", "MD5_HMAC", "SHA3"}

InitCap == \E devs \in CapConfigs : InitGlobal(devs, HeapSize)

NextCap ==
    \/ odp_crypto_capability
    \/ \E cipher_alg \in CapCiphers, num_copy \in Capacities :
           odp_crypto_cipher_capability(cipher_alg, num_copy)
    \/ \E auth_alg \in CapAuths, num_copy \in Capacities :
           odp_crypto_auth_capability(auth_alg, num_copy)

SpecCap == InitCap /\ [][NextCap]_vars

(***************************************************************************)
(* The batches: up to MAX_SESSIONS asynchronous AES-GCM sessions, each     *)
(* with its completion queue, and batches of up to MaxBatch items, each    *)
(* item on a live session.                                                 *)
(***************************************************************************)
MaxBatch == 2

P_Async(compl_queue) ==
    [P_GcmNoIv EXCEPT !.op_mode = "ASYNC", !.compl_queue = compl_queue]

BatchParams ==
    UNION { [1 .. n -> live] : n \in 0 .. MaxBatch }

NextBatch ==
    \/ \E q \in ComplQueues :
           /\ batch.pc # "run"
           /\ \A s \in live : sessions[s].p.compl_queue # q
           /\ odp_crypto_session_create(P_Async(q), "ok")
    \/ \E param \in BatchParams : odp_crypto_op(param)
    \/ crypto_op_round
    \/ \E param \in BatchParams : odp_crypto_op_enq(param)
    \/ \E enq \in {0, -1} : crypto_op_enq_round(enq)

SpecBatch == InitOp /\ [][NextBatch]_vars

(***************************************************************************)
(* Creates that fail, for each reason the code has: parameters at and      *)
(* beyond the limits of the scratch buffers, unknown algorithms, sizes no  *)
(* device has, on every platform of the model, with every answer of the    *)
(* accelerator.                                                            *)
(***************************************************************************)
P_Ccm(aad_len) ==
    [P_Gcm EXCEPT !.cipher_alg = "AES_CCM", !.auth_alg = "AES_CCM",
                  !.auth_aad_len = aad_len]

ErrParams ==
    { P_Gcm, P_CbcSha, P_BadKey, P_BadCipher, P_BadAuth, P_LongDigest,
      [P_Gcm EXCEPT !.auth_aad_len = PACKET_AAD_MAX + 1],
      [P_Gcm EXCEPT !.auth_aad_len = PACKET_AAD_MAX],
      P_Ccm(PACKET_AAD_MAX - AES_CCM_AAD_OFFSET),
      P_Ccm(PACKET_AAD_MAX - AES_CCM_AAD_OFFSET + 1),
      [P_CbcSha EXCEPT !.auth_digest_len = PACKET_DIGEST_MAX + 1],
      [P_BadCipher EXCEPT !.auth_alg = "SHA384_HMAC"] }

NextErr ==
    \/ \E param \in ErrParams, accel \in AccelCreate :
           odp_crypto_session_create(param, accel)
    \/ \E session \in Slots :
           odp_crypto_session_destroy(session, "ok")

SpecErr == Init /\ [][NextErr]_vars

(***************************************************************************)
(* is_valid_size called on its own, over every length and range of small   *)
(* numbers and over two ranges that end at the top of uint16_t.            *)
(***************************************************************************)
\* The largest length, min, max and increment of the small ranges.
MaxSize == 4

SizeInputs ==
    { [length |-> length, range |-> Range(mn, mx, inc)] :
          length \in 0 .. MaxSize, mn \in 0 .. MaxSize, mx \in 0 .. MaxSize,
          inc \in 0 .. MaxSize }
    \cup { [length |-> UINT16 - 3, range |-> Range(1, UINT16 - 1, UINT16 - 2)],
           [length |-> 2, range |-> Range(1, UINT16 - 1, UINT16 \div 2)] }

call_is_valid_size(length, range) ==
    /\ last' = [op |-> "is_valid_size", length |-> length, range |-> range,
                rc |-> is_valid_size(length, range)]
    /\ UNCHANGED << devVars, lock, sessVars, opVars, parVars >>

NextSize ==
    \E in \in SizeInputs : call_is_valid_size(in.length, in.range)

SpecSize == InitOp /\ [][NextSize]_vars

\* Threads that call odp_crypto_int at the same time on one session, each
\* with a fresh packet and the IV it needs.
NextPar ==
    \/ \E param \in {P_GcmNoIv} :
           live = {} /\ odp_crypto_session_create(param, "ok")
    \/ \E t \in Threads, session \in live :
           int_begin(t, FreshPkt, session, "in", 1, 0)
    \/ \E t \in Threads : int_alloc(t)
    \/ \E t \in Threads : int_submit(t)
    \/ \E t \in Threads : int_dequeue(t)

SpecPar == InitOp /\ [][NextPar]_vars

\* Every thread in the dequeue loop gets to make its next attempt.
SpecParFair == SpecPar /\ \A t \in Threads : WF_vars(int_dequeue(t))

(***************************************************************************)
(* Round trips on a faithful device: encode and decode sessions of         *)
(* AES-128-CBC with HMAC-SHA256 and per-call IVs, and calls whose input is *)
(* a fresh packet or the packet the call before returned.                  *)
(***************************************************************************)
\* The decode session that matches P_CbcSha.
P_CbcShaDec == [P_CbcSha EXCEPT !.op = "DECODE"]

\* A decode session that expects the MAC over the plaintext.
P_ShaCbcDec == [P_CbcShaDec EXCEPT !.auth_cipher_text = FALSE]

RoundTripParams == { P_CbcSha, P_CbcShaDec, P_ShaCbcDec }

\* The cipher layers a packet may carry when it is passed in again.
MaxLayers == 1

RoundTripInputs ==
    {FreshPkt} \cup
    (IF /\ last.op = "int" /\ last.rc = 0 /\ last.out_pkt # "old"
        /\ Len(last.data) <= MaxLayers
     THEN {[data |-> last.data, digest |-> last.digest]} ELSE {})

NextRT ==
    \/ \E param \in RoundTripParams :
           odp_crypto_session_create(param, "ok")
    \/ \E session \in Slots : odp_crypto_session_destroy(session, "ok")
    \/ \E session \in live, pkt_in \in RoundTripInputs,
          pkt_out \in {"in", "out"}, cipher_iv_ptr \in {1, 2} :
           odp_crypto_int(pkt_in, session, pkt_out, cipher_iv_ptr, 0)

\* One faithful device, and heap enough for the keys of two sessions.
InitRT == InitGlobal(Arr(<< DevIdeal >>), 2 * HeapSize)

SpecRT == InitRT /\ [][NextRT]_vars

(***************************************************************************)
(* odp_crypto_session_create and odp_crypto_session_destroy on several     *)
(* threads at once.  calls[t] is the call of thread t: its position pc,    *)
(* its arguments, and its locals `session` and `head` (the value of        *)
(* global->free it read).  The free list is the sequence `free`: the next  *)
(* link of a slot on it is the slot after it, and a slot that is on no     *)
(* list has a NULL link.  Each statement of alloc_session and free_session *)
(* is a step; the code between them works on the thread's own slot and on  *)
(* the allocators of the driver, which serialise their callers.            *)
(***************************************************************************)
\* The list that starts at slot head: the part of `list` from head on.
ListFrom(list, head) ==
    IF \E i \in 1 .. Len(list) : list[i] = head
    THEN LET i == CHOOSE i \in 1 .. Len(list) :
                      list[i] = head /\ \A j \in 1 .. i - 1 : list[j] # head
         IN  SubSeq(list, i, Len(list))
    ELSE << >>

\* A lock that lets every caller in.
spin_acquire_nolock(l) == TRUE

\* odp_spinlock_lock goes through when the lock is not held.
spin_acquire(l) == l = 0

SessCall(pc, kind, param, accel, session, head) ==
    [pc |-> pc, kind |-> kind, param |-> param, accel |-> accel,
     session |-> session, head |-> head]

\* The call of thread t returns.
SessReturn(t) == calls' = [calls EXCEPT ![t] = IdleCall]

\* odp_crypto_session_create up to the call of alloc_session.
create_begin(t, param, accel) ==
    /\ calls[t].pc = "idle"
    /\ calls' = [calls EXCEPT ![t] =
                    IF rte_cryptodev_count = 0 THEN IdleCall
                    ELSE SessCall("alloc_lock", "create", param, accel, 0, 0)]
    /\ UNCHANGED << devVars, lock, sessVars, opVars, m_src, batch, last >>

\* odp_spinlock_lock in alloc_session and in free_session.
session_lock(t) ==
    /\ calls[t].pc \in {"alloc_lock", "free_lock"}
    /\ spin_acquire(lock)
    /\ lock' = 1
    /\ calls' = [calls EXCEPT ![t].pc = IF @ = "alloc_lock" THEN "alloc_read"
                                        ELSE "free_read"]
    /\ UNCHANGED << devVars, sessVars, opVars, m_src, batch, last >>

\* session = global->free
alloc_read(t) ==
    /\ calls[t].pc = "alloc_read"
    /\ calls' = [calls EXCEPT ![t].session = alloc_session(free).session,
                              ![t].pc = IF free = << >> THEN "alloc_unlock"
                                        ELSE "alloc_write"]
    /\ UNCHANGED << devVars, lock, sessVars, opVars, m_src, batch, last >>

\* global->free = session->next; session->next = NULL
alloc_write(t) ==
    /\ calls[t].pc = "alloc_write"
    /\ free' = alloc_session(ListFrom(free, calls[t].session)).free
    /\ calls' = [calls EXCEPT ![t].pc = "alloc_unlock"]
    /\ UNCHANGED << devVars, lock, sessions, rte_heap, rte_sessions, live,
                    opVars, m_src, batch, last >>

\* odp_spinlock_unlock in alloc_session, and the test of its result.
alloc_unlock(t) ==
    /\ calls[t].pc = "alloc_unlock"
    /\ lock' = 0
    /\ IF calls[t].session = 0 THEN SessReturn(t)
       ELSE calls' = [calls EXCEPT ![t].pc = "setup"]
    /\ UNCHANGED << devVars, sessVars, opVars, m_src, batch, last >>

\* From "Copy parameters" to the return of 0, or to the memset of the err:
\* label, with free_session still to come.
create_setup(t) ==
    /\ calls[t].pc = "setup"
    /\ \E r \in {session_setup(calls[t].session, calls[t].param,
                               calls[t].accel)} :
           /\ sessions' = [sessions EXCEPT ![r.session] = r.entry]
           /\ rte_heap' = r.heap
           /\ rte_sessions' =
                  IF r.kept
                  THEN [q \in DOMAIN rte_sessions \cup {r.native} |->
                           IF q = r.native THEN r.object ELSE rte_sessions[q]]
                  ELSE rte_sessions
           /\ live' = IF r.rc = 0 THEN live \cup {r.session_out} ELSE live
           /\ IF r.rc = 0 THEN SessReturn(t)
              ELSE calls' = [calls EXCEPT ![t].pc = "free_lock"]
    /\ UNCHANGED << devVars, lock, free, opVars, m_src, batch, last >>

\* odp_crypto_session_destroy of a session in use, up to the call of
\* free_session, or to the return of -1.
destroy_begin(t, session, accel) ==
    /\ calls[t].pc = "idle"
    /\ \E r \in {session_destroy(session, accel)}, e \in {sessions[session]} :
           /\ sessions' = IF r.released
                          THEN [sessions EXCEPT ![session] = ZeroSession]
                          ELSE sessions
           /\ rte_sessions' =
                  IF r.freed
                  THEN [q \in DOMAIN rte_sessions \ {e.rte_session} |->
                           rte_sessions[q]]
                  ELSE rte_sessions
           /\ live' = IF r.rc = 0 THEN live \ {session} ELSE live
           /\ calls' = [calls EXCEPT ![t] =
                           IF r.released
                           THEN SessCall("free_lock", "destroy", e.p, accel,
                                         session, 0)
                           ELSE IdleCall]
    /\ UNCHANGED << devVars, lock, free, rte_heap, opVars, m_src, batch,
                    last >>

\* session->next = global->free
free_read(t) ==
    /\ calls[t].pc = "free_read"
    /\ calls' = [calls EXCEPT ![t].head = alloc_session(free).session,
                              ![t].pc = "free_write"]
    /\ UNCHANGED << devVars, lock, sessVars, opVars, m_src, batch, last >>

\* global->free = session
free_write(t) ==
    /\ calls[t].pc = "free_write"
    /\ free' = free_session(ListFrom(free, calls[t].head), calls[t].session)
    /\ calls' = [calls EXCEPT ![t].pc = "free_unlock"]
    /\ UNCHANGED << devVars, lock, sessions, rte_heap, rte_sessions, live,
                    opVars, m_src, batch, last >>

\* odp_spinlock_unlock in free_session, and the return.
free_unlock(t) ==
    /\ calls[t].pc = "free_unlock"
    /\ lock' = 0
    /\ SessReturn(t)
    /\ UNCHANGED << devVars, sessVars, opVars, m_src, batch, last >>

\* Creates, which fail once the heap has no room for the key, and destroys
\* of sessions in use, each by one thread.
NextConc ==
    \/ \E t \in Threads : create_begin(t, P_Gcm, "ok")
    \/ \E t \in Threads : session_lock(t)
    \/ \E t \in Threads : alloc_read(t)
    \/ \E t \in Threads : alloc_write(t)
    \/ \E t \in Threads : alloc_unlock(t)
    \/ \E t \in Threads : create_setup(t)
    \/ \E t \in Threads, session \in live : destroy_begin(t, session, "ok")
    \/ \E t \in Threads : free_read(t)
    \/ \E t \in Threads : free_write(t)
    \/ \E t \in Threads : free_unlock(t)

SpecConc == InitOp /\ [][NextConc]_vars

(***************************************************************************)
(* IV sources: non-AEAD sessions with and without cached cipher and auth   *)
(* IVs, one at a time, and calls with and without explicit IV pointers.    *)
(***************************************************************************)
\* AES-128-CBC with HMAC-SHA256 and a session cipher IV.
P_CbcShaIv == [P_CbcSha EXCEPT !.cipher_iv = [data |-> 104, length |-> 16]]

\* AES-128-CBC with AES-GMAC verification and session IVs for both.
P_CbcGmacIv ==
    [P_CbcGmac EXCEPT !.cipher_iv = [data |-> 104, length |-> 16],
                      !.auth_iv = [data |-> 105, length |-> 12]]

IvParams == { P_CbcSha, P_CbcShaIv, P_CbcGmac, P_CbcGmacIv }

NextIv ==
    \/ \E param \in IvParams :
           live = {} /\ odp_crypto_session_create(param, "ok")
    \/ \E session \in Slots :
           odp_crypto_session_destroy(session, "ok")
    \/ \E session \in live, pkt_out \in {"in", "out"},
          cipher_iv_ptr \in {0, 1}, auth_iv_ptr \in {0, 1} :
           odp_crypto_int(FreshPkt, session, pkt_out, cipher_iv_ptr,
                          auth_iv_ptr)

SpecIv == InitOp /\ [][NextIv]_vars

(***************************************************************************)
(* Properties of the session pool and of session creation and destruction. *)
(***************************************************************************)
FreeSlots == { free[i] : i \in 1 .. Len(free) }

\* The key buffers a create with these parameters asks rte_malloc for.
KeysNeeded(param) ==
    (IF param.cipher_key.length # 0 THEN 1 ELSE 0)
    + (IF ~ cipher_is_aead(param.cipher_alg) /\ param.auth_key.length # 0
       THEN 1 ELSE 0)

\* The parameters pass the transform builders and some enabled device
\* accepts them.
ParamAccepted(param) ==
    IF cipher_is_aead(param.cipher_alg)
    THEN LET a == crypto_fill_aead_xform(StackXform, param, << >>)
         IN  a.rc = 0 /\ get_crypto_aead_dev(a.xform).rc = 0
    ELSE LET c == crypto_fill_cipher_xform(StackXform, param, << >>)
             au == crypto_fill_auth_xform(StackXform, param, c.heap)
         IN  c.rc = 0 /\ au.rc = 0 /\ get_crypto_dev(c.xform, au.xform).rc = 0

\* C1 (pool conservation): after every create or destroy call, succeeding or
\* failing, the slots on the free list and the slots held by live sessions
\* (created and not yet destroyed) are disjoint, together they are all the
\* MAX_SESSIONS slots, so that their numbers add up to MAX_SESSIONS; and once
\* every created session has been destroyed the free list holds MAX_SESSIONS
\* slots again.
C1_PoolConservation ==
    /\ Len(free) + Cardinality(live) = MAX_SESSIONS
    /\ Cardinality(FreeSlots) = Len(free)
    /\ FreeSlots \cap live = {}
    /\ FreeSlots \cup live = Slots
    /\ (live = {} => Len(free) = MAX_SESSIONS)

\* C1 witness: sessions were created, the last of them has just been
\* destroyed, and the free list is whole again.
C1_Witness ==
    /\ last.op = "destroy" /\ last.rc = 0 /\ last.was_live
    /\ live = {} /\ Len(free) = MAX_SESSIONS

\* C2 (exhaustion): a create succeeds whenever a slot is free, the parameters
\* are accepted by a device, the accelerator and the key memory do not fail;
\* and a create that finds every slot taken (MAX_SESSIONS live sessions)
\* fails with ODP_CRYPTO_SES_CREATE_ERR_ENOMEM.  So MAX_SESSIONS consecutive
\* creates succeed, the next fails; and after one destroy (one free slot)
\* one create succeeds and the one after it fails again.
C2_Exhaustion ==
    last.op = "create" /\ rte_cryptodev_count # 0 =>
        /\ last.free_before = 0 =>
               /\ last.rc = -1 /\ last.status = "ENOMEM"
               /\ Cardinality(live) = MAX_SESSIONS
        /\ ( /\ last.free_before > 0
             /\ ParamAccepted(last.param)
             /\ last.accel = "ok"
             /\ last.heap_before + KeysNeeded(last.param) <= rte_heap_size )
           => /\ last.rc = 0 /\ last.status = "NONE"
              /\ Len(free) = last.free_before - 1

\* C2 witness: MAX_SESSIONS sessions are live and a create with parameters a
\* device accepts has just failed on the empty pool.
C2_Witness ==
    /\ last.op = "create" /\ last.fail = "pool" /\ last.free_before = 0
    /\ Cardinality(live) = MAX_SESSIONS
    /\ ParamAccepted(last.param)

\* C3 (rollback of the slot): a failed create returns -1 with *session_out =
\* ODP_CRYPTO_SESSION_INVALID, the slot it had taken is zeroed and on the
\* free list again, and the free list is as long as before the call.
C3_Rollback ==
    last.op = "create" /\ last.rc # 0 =>
        /\ last.rc = -1
        /\ last.session_out = ODP_CRYPTO_SESSION_INVALID
        /\ last.status # "NONE"
        /\ Len(free) = last.free_before
        /\ last.session # 0 =>
               /\ sessions[last.session] = ZeroSession
               /\ last.session \in FreeSlots
               /\ last.session \notin live

\* C3 witness: a create took a slot and failed when the accelerator refused
\* to initialise the native session.
C3_Witness ==
    /\ last.op = "create" /\ last.fail = "sess_init" /\ last.session # 0
    /\ last.free_before > 0

\* C4 (no partial side effects of a failed create), as claimed: after a failed
\* create neither the native session object made during the call nor a key
\* buffer copied during the call is still allocated.
C4_NoSideEffects ==
    last.op = "create" /\ last.rc # 0 =>
        /\ last.native \notin DOMAIN rte_sessions
        /\ last.keys \cap DOMAIN rte_heap = {}

\* C5 (best-effort release on destroy), as claimed: a destroy call on a live
\* session zeroes the slot and puts it on the free list, which grows by one,
\* whether or not the accelerator's clear or free failed; and it reports an
\* error when one of them failed.
C5_BestEffortRelease ==
    last.op = "destroy" /\ last.was_live =>
        /\ Len(free) = last.free_before + 1
        /\ sessions[last.handle] = ZeroSession
        /\ last.handle \in FreeSlots
        /\ (last.accel # "ok" => last.rc = -1)

\* C6 (one native object per session): every live session owns an allocated
\* native session object, no two live sessions own the same one, every
\* allocated native object is owned by a live session; a slot on the free
\* list owns none, and a destroy that put the slot back on the free list has
\* released the session's native object.
C6_OneNativePerSession ==
    /\ \A s \in live : sessions[s].rte_session \in DOMAIN rte_sessions
    /\ \A s, t \in live :
           s # t => sessions[s].rte_session # sessions[t].rte_session
    /\ \A n \in DOMAIN rte_sessions : \E s \in live : sessions[s].rte_session = n
    /\ Cardinality(DOMAIN rte_sessions) = Cardinality(live)
    /\ \A s \in FreeSlots : sessions[s].rte_session = 0
    /\ (last.op = "destroy" /\ last.handle \in FreeSlots
           => last.native \notin DOMAIN rte_sessions)

\* C6 witness: two sessions were created, one has just been destroyed and
\* the other is still live with its native object.
C6_Witness ==
    /\ last.op = "destroy" /\ last.rc = 0 /\ last.native # 0
    /\ live # {} /\ DOMAIN rte_sessions # {}

\* C7 (ownership on destroy), as claimed: after a destroy that returned
\* success, the session's native object and the key copies made for it at
\* creation are no longer allocated.
C7_DestroyReleasesAll ==
    last.op = "destroy" /\ last.rc = 0 =>
        /\ last.native \notin DOMAIN rte_sessions
        /\ last.keys \cap DOMAIN rte_heap = {}

(***************************************************************************)
(* Properties of the per-call operation engine.                            *)
(***************************************************************************)
\* The session of the last operation needs a cipher IV (an auth IV) from
\* the call: its transform has a non-zero IV length and the session holds
\* no IV of its own.
NeedsCipherIv(s) == s.cipher_xform.iv.length # 0 /\ s.p.cipher_iv.data = 0

NeedsAuthIv(s) ==
    /\ ~ cipher_is_aead(s.p.cipher_alg)
    /\ s.auth_xform.iv.length # 0 /\ s.p.auth_iv.data = 0

\* The last call was an operation on a live session that got its working
\* packet and its descriptor.
OpPrepared == last.op = "int" /\ last.handle \in live /\ last.desc # 0

\* The last call came to the result stage: it was prepared, and either an IV
\* was missing or its enqueue was taken and a dequeue delivered.
OpAtResult ==
    /\ OpPrepared
    /\ \/ (NeedsCipherIv(sessions[last.handle]) /\ last.cipher_iv_ptr = 0)
       \/ (NeedsAuthIv(sessions[last.handle]) /\ last.auth_iv_ptr = 0)
       \/ last.dequeued # 0

\* C8 (missing IV): an operation on a session whose cipher transform has a
\* non-zero IV length and no session IV, called without an explicit cipher
\* IV, returns 0 with cipher outcome IV_INVALID and ok = false, having
\* enqueued nothing and polled nothing (no hang, no hard failure) once it
\* has its working packet and its descriptor; and the same for the auth IV
\* with auth outcome IV_INVALID.
C8_MissingIv ==
    OpPrepared =>
        /\ NeedsCipherIv(sessions[last.handle]) /\ last.cipher_iv_ptr = 0 =>
               /\ last.rc = 0 /\ last.result.cipher = "IV_INVALID"
               /\ last.result.ok = FALSE
               /\ ~ last.enqueued /\ last.attempts = 0
        /\ NeedsAuthIv(sessions[last.handle]) /\ last.auth_iv_ptr = 0 =>
               /\ last.rc = 0 /\ last.result.auth = "IV_INVALID"
               /\ last.result.ok = FALSE
               /\ ~ last.enqueued /\ last.attempts = 0

\* C8 witness: an operation without IV pointers on a session that needs both
\* a cipher IV and an auth IV has returned with both outcomes IV_INVALID.
C8_Witness ==
    /\ OpPrepared
    /\ NeedsCipherIv(sessions[last.handle]) /\ last.cipher_iv_ptr = 0
    /\ NeedsAuthIv(sessions[last.handle]) /\ last.auth_iv_ptr = 0
    /\ last.rc = 0
    /\ last.result = [cipher |-> "IV_INVALID", auth |-> "IV_INVALID",
                      ok |-> FALSE]

\* C9 (soft outcomes never abort the call): every operation that comes to
\* the result stage returns 0 and writes the cipher outcome and the auth
\* outcome into the result of the packet it returns, ok is true exactly
\* when both outcomes are NONE, and the packet's crypto error flag is the
\* negation of ok.
C9_SoftOutcomes ==
    OpAtResult =>
        /\ last.rc = 0
        /\ last.subtype = "CRYPTO"
        /\ last.result.cipher = last.rc_cipher
        /\ last.result.auth = last.rc_auth
        /\ last.result.cipher \in {"NONE", "IV_INVALID"}
        /\ last.result.auth \in {"NONE", "IV_INVALID", "ICV_CHECK"}
        /\ last.result.ok = (last.result.cipher = "NONE"
                             /\ last.result.auth = "NONE")
        /\ last.crypto_err = ~ last.result.ok

\* C9 witness: an operation was submitted, the accelerator reported a failed
\* authentication, and the call returned 0 with the soft outcome.
C9_Witness ==
    /\ OpAtResult /\ last.dequeued # 0
    /\ last.rc = 0 /\ last.result.auth = "ICV_CHECK" /\ last.crypto_err

\* C10 (outcome classification): for an operation whose descriptor was
\* submitted and a descriptor dequeued, accelerator status SUCCESS gives
\* cipher NONE, auth NONE and ok true; AUTH_FAILED gives cipher NONE, auth
\* ICV_CHECK and ok false; every other status gives cipher NONE, auth NONE.
C10_Classification ==
    last.op = "int" /\ last.enqueued /\ last.dequeued # 0 =>
        /\ last.rc = 0
        /\ last.status = "SUCCESS" =>
               last.result = [cipher |-> "NONE", auth |-> "NONE",
                              ok |-> TRUE]
        /\ last.status = "AUTH_FAILED" =>
               last.result = [cipher |-> "NONE", auth |-> "ICV_CHECK",
                              ok |-> FALSE]
        /\ last.status \notin {"SUCCESS", "AUTH_FAILED"} =>
               /\ last.result.cipher = "NONE"
               /\ last.result.auth = "NONE"

\* C10 witness: a decrypt on an AES-GCM session (IV length 12, digest length
\* 16) was submitted and the accelerator reported a failed authentication.
C10_Witness ==
    /\ last.op = "int" /\ last.enqueued /\ last.dequeued # 0
    /\ last.handle \in live
    /\ sessions[last.handle].p.cipher_alg = "AES_GCM"
    /\ sessions[last.handle].p.op = "DECODE"
    /\ sessions[last.handle].cipher_xform.iv.length = 12
    /\ sessions[last.handle].p.auth_digest_len = 16
    /\ last.status = "AUTH_FAILED"
    /\ last.result = [cipher |-> "NONE", auth |-> "ICV_CHECK", ok |-> FALSE]

(***************************************************************************)
(* Properties of the round trip.                                           *)
(***************************************************************************)
\* C11: on a faithful device, a completed encode of a fresh packet by the
\* AES-CBC/HMAC-SHA256 session reports ok and leaves the payload encrypted
\* under the session's key and the call's IV with the MAC of that payload at
\* hash_result_offset; a completed decode of such a packet by the matching
\* decode session with the same IV reports ok, returns the original
\* plaintext, and the digest it presented for verification is the one the
\* encode wrote.
C11_RoundTrip ==
    last.op = "int" /\ last.rc = 0 =>
        LET p == sessions[last.handle].p
            enc == << [op |-> "ENCRYPT", key |-> p.cipher_key.data,
                       iv |-> last.cipher_iv_ptr] >>
            icv == mac(p.auth_key.data, 0, enc)
        IN  /\ p = P_CbcSha /\ last.pkt_in = FreshPkt =>
                   /\ last.result.ok
                   /\ last.data = enc
                   /\ last.digest = icv
            /\ p = P_CbcShaDec /\ last.pkt_in = [data |-> enc, digest |-> icv] =>
                   /\ last.result.ok
                   /\ last.data = << >>
                   /\ last.buf = icv
                   /\ last.digest = icv

\* C11 witness: a decode by the matching session has just returned the
\* plaintext of a packet an encode produced.
C11_Witness ==
    /\ last.op = "int" /\ last.rc = 0
    /\ sessions[last.handle].p = P_CbcShaDec
    /\ last.pkt_in.data # << >>
    /\ last.pkt_in.digest.t = "mac"
    /\ last.result.ok
    /\ last.data = << >>

(***************************************************************************)
(* Properties of concurrent calls, of the lock and of the descriptors.     *)
(***************************************************************************)
\* C12: a call in the dequeue loop always leaves it; it makes at most
\* MAX_DEQ_RETRIES + 1 dequeue attempts; when every attempt came back empty
\* it returns -1 after exactly that many, and goes from the loop to its
\* return and never back to the enqueue; when an attempt delivered a
\* descriptor it returns 0 with the classification of the status.
C12_BoundedPoll ==
    /\ [](\A t \in Threads :
             calls[t].pc = "poll" => calls[t].c.attempts <= MAX_DEQ_RETRIES)
    /\ [](last.op = "int" /\ last.enqueued =>
             /\ last.attempts <= MAX_DEQ_RETRIES + 1
             /\ last.dequeued = 0 =>
                    /\ last.rc = -1 /\ last.fail = "timeout"
                    /\ last.attempts = MAX_DEQ_RETRIES + 1
             /\ last.dequeued # 0 =>
                    /\ last.rc = 0
                    /\ last.rc_cipher = classify(last.status).rc_cipher
                    /\ last.rc_auth = classify(last.status).rc_auth)
    /\ [][\A t \in Threads :
             calls[t].pc = "poll" => calls'[t].pc \in {"poll", "idle"}]_vars
    /\ \A t \in Threads : calls[t].pc = "poll" ~> calls[t].pc = "idle"

\* C12 witness: a call has just returned -1 after MAX_DEQ_RETRIES + 1 empty
\* dequeue attempts.
C12_Witness ==
    /\ last.op = "int" /\ last.enqueued /\ last.rc = -1
    /\ last.fail = "timeout"
    /\ last.attempts = MAX_DEQ_RETRIES + 1

\* C13: on a platform with a device the lock is free whenever no thread is
\* inside the descriptor allocation, so after every return of
\* odp_crypto_int, the one on an exhausted descriptor pool included, a
\* later create, destroy or operation can take it.
C13_LockReleased == rte_cryptodev_count # 0 => lock = 0

\* C14: with no call in progress every descriptor is in the pool, once: a
\* call that took a descriptor has put that descriptor back before it
\* returned.
C14_DescriptorsReturned ==
    \A i \in DOMAIN crypto_op_pool : crypto_op_pool[i] = 1

\* C15: a descriptor that is on a queue pair, enqueued and not yet
\* dequeued, is not in the free pool, so it cannot be handed to a call.
C15_EnqueuedNotInPool ==
    \A qp \in DOMAIN queues :
        \A k \in 1 .. Len(queues[qp]) : crypto_op_pool[queues[qp][k]] = 0

\* C16: a call that returns 0 after a dequeue returns its own packet, the
\* one of the descriptor it enqueued, and not a packet of another call.
C16_OwnDescriptor ==
    last.op = "int" /\ last.rc = 0 /\ last.dequeued # 0 =>
        last.out_pkt # "old"

(***************************************************************************)
(* Properties of device selection and of the transform chain.              *)
(***************************************************************************)
\* The transforms odp_crypto_session_create builds from param, as the
\* selectors get them.
SelXforms(param) ==
    IF cipher_is_aead(param.cipher_alg)
    THEN LET a == crypto_fill_aead_xform(StackXform, param, << >>)
         IN  [rc |-> a.rc, cipher |-> a.xform, auth |-> StackXform]
    ELSE LET c == crypto_fill_cipher_xform(StackXform, param, << >>)
             au == crypto_fill_auth_xform(StackXform, param, << >>)
         IN  [rc |-> IF c.rc < 0 THEN c.rc ELSE au.rc,
              cipher |-> c.xform, auth |-> au.xform]

\* The registry positions whose device passes the selector's tests for the
\* transforms of param.
Passing(param) ==
    LET x == SelXforms(param)
    IN  { id \in 0 .. enabled_crypto_devs - 1 :
            LET dev == cdevs[enabled_crypto_dev_ids[id]]
            IN  IF cipher_is_aead(param.cipher_alg)
                THEN aead_dev_ok(dev, x.cipher)
                ELSE /\ cipher_dev_ok(dev, x.cipher)
                     /\ auth_dev_ok(dev, x.cipher, x.auth) }

\* C17: a create that reaches device selection gets the device at the first
\* registry position that passes the selector's tests, whatever passes
\* after it; when no position passes it fails and reports ENOMEM.
C17_FirstMatch ==
    last.op = "create" /\ last.fail \in {"none", "select"} =>
        LET pass == Passing(last.param)
        IN  /\ pass = {} =>
                   /\ last.rc = -1 /\ last.fail = "select"
                   /\ last.status = "ENOMEM"
                   /\ last.session_out = ODP_CRYPTO_SESSION_INVALID
            /\ pass # {} =>
                   /\ last.rc = 0
                   /\ \E id \in pass :
                          /\ sessions[last.session].cdev_id =
                                 enabled_crypto_dev_ids[id]
                          /\ \A other \in pass : id <= other

\* C17 witness: a create has just succeeded on a platform where two devices
\* pass, and its session is on the one that is first in the registry.
C17_Witness ==
    /\ last.op = "create" /\ last.rc = 0
    /\ Cardinality(Passing(last.param)) = 2
    /\ sessions[last.session].cdev_id = enabled_crypto_dev_ids[0]

\* C18: the device of a created session advertises, in its entry for the
\* session's algorithm, a range that holds every requested length: key, IV,
\* digest and AAD for an AEAD transform; key and IV for a cipher that is not
\* NULL; key, digest and IV for an authentication that is not NULL.
C18_RangesChecked ==
    last.op = "create" /\ last.rc = 0 =>
        LET s == sessions[last.session]
            dev == cdevs[s.cdev_id]
            cx == s.cipher_xform
            ax == s.auth_xform
            InRange(type, algo, key, iv, digest, aad) ==
                LET c == FindCap(dev, type, algo)
                    cap == dev.capabilities[c]
                IN  /\ c # 0
                    /\ is_valid_size(key, cap.key_size) = 0
                    /\ is_valid_size(iv, cap.iv_size) = 0
                    /\ is_valid_size(digest, cap.digest_size) = 0
                    /\ is_valid_size(aad, cap.aad_size) = 0
        IN  IF cx.type = "AEAD"
            THEN InRange("AEAD", cx.algo, cx.key.length, cx.iv.length,
                         cx.digest_length, cx.aad_length)
            ELSE /\ cx.algo # "CIPHER_NULL" =>
                        InRange("CIPHER", cx.algo, cx.key.length,
                                cx.iv.length, 0, 0)
                 /\ ax.algo # "AUTH_NULL" =>
                        InRange("AUTH", ax.algo, ax.key.length, ax.iv.length,
                                ax.digest_length, 0)

\* C19: a create with separate transforms that reaches device selection is
\* not turned down by it when some enabled device passes the checks of the
\* components that are not NULL; a NULL cipher and a NULL authentication
\* count as passed on every device, also when both are NULL.
C19_NullSkips ==
    /\ last.op = "create" /\ last.fail \in {"none", "select"}
    /\ ~ cipher_is_aead(last.param.cipher_alg)
    => LET x == SelXforms(last.param)
           suits(dev) ==
               /\ x.cipher.algo = "CIPHER_NULL" \/ cipher_dev_ok(dev, x.cipher)
               /\ x.auth.algo = "AUTH_NULL"
                      \/ auth_dev_ok(dev, x.cipher, x.auth)
       IN  (\E id \in 0 .. enabled_crypto_devs - 1 :
                suits(cdevs[enabled_crypto_dev_ids[id]]))
           => last.fail # "select"

\* C20: the chain of a session created with separate transforms is the
\* authentication alone when the cipher is NULL; else the cipher alone when
\* the authentication is NULL; else cipher then authentication exactly when
\* op is ENCODE with auth_cipher_text set or DECODE with it clear, and
\* authentication then cipher otherwise.
C20_TransformOrder ==
    /\ last.op = "create" /\ last.rc = 0
    /\ ~ cipher_is_aead(last.param.cipher_alg)
    => LET p == last.param
           s == sessions[last.session]
           chain == rte_sessions[s.rte_session].chain
           cipher_then_auth ==
               \/ p.op = "ENCODE" /\ p.auth_cipher_text
               \/ p.op = "DECODE" /\ ~ p.auth_cipher_text
       IN  /\ p.cipher_alg = "NULL" =>
                  /\ chain = << "AUTH" >>
                  /\ s.auth_xform.next = "NULL"
           /\ p.cipher_alg # "NULL" /\ p.auth_alg = "NULL" =>
                  /\ chain = << "CIPHER" >>
                  /\ s.cipher_xform.next = "NULL"
           /\ p.cipher_alg # "NULL" /\ p.auth_alg # "NULL" =>
                  IF cipher_then_auth
                  THEN /\ chain = << "CIPHER", "AUTH" >>
                       /\ s.cipher_xform.next = "auth_xform"
                       /\ s.auth_xform.next = "NULL"
                  ELSE /\ chain = << "AUTH", "CIPHER" >>
                       /\ s.auth_xform.next = "cipher_xform"
                       /\ s.cipher_xform.next = "NULL"

\* C20 witness: a DECODE session with auth_cipher_text set, AES-CBC and
\* HMAC-SHA256 has just been created with the chain authentication then
\* cipher.
C20_Witness ==
    /\ last.op = "create" /\ last.rc = 0
    /\ last.param = SelParam("DECODE", TRUE, "AES_CBC", "SHA256_HMAC")
    /\ rte_sessions[sessions[last.session].rte_session].chain
           = << "AUTH", "CIPHER" >>

\* C21: the queue-pair count cached in a created session is the number of
\* queue pairs odp_crypto_init_global configured on the session's device, so
\* every cpu id modulo that count names a queue pair of that device.
C21_QueuePairCount ==
    last.op = "create" /\ last.rc = 0 =>
        LET s == sessions[last.session]
        IN  /\ s.cdev_nb_qpairs =
                   Min(CpuCount, cdevs[s.cdev_id].max_nb_queue_pairs)
            /\ \A cpu \in 0 .. CpuCount - 1 :
                   << s.cdev_id, cpu % s.cdev_nb_qpairs >> \in DOMAIN queues

(***************************************************************************)
(* Properties of the capability queries, of shutdown and of the batches.   *)
(***************************************************************************)
\* C22: is_valid_size returns, and it returns 0 (supported) exactly when
\* length >= min, length is min or increment > 0 divides length - min, and
\* length <= max.
C22_ValidSize ==
    last.op = "is_valid_size" =>
        LET length == last.length
            range == last.range
        IN  /\ last.rc \in {0, -1}
            /\ last.rc = 0 <=>
                   /\ length >= range.min
                   /\ \/ length = range.min
                      \/ /\ range.increment > 0
                         /\ (length - range.min) % range.increment = 0
                   /\ length <= range.max

\* C23: when odp_crypto_capability succeeds, max_sessions is the smallest
\* max_nb_sessions of the devices, or MAX_SESSIONS when that is larger,
\* whatever the order of the devices and also when a device reports 0.
C23_MaxSessions ==
    last.op = "capability" /\ last.rc = 0 =>
        last.capability.max_sessions =
            Min(MAX_SESSIONS,
                SetMin({ cdevs[d].max_nb_sessions : d \in DOMAIN cdevs }))

\* The entries a capability query has written: those that no longer hold
\* what the caller's array held.
WrittenEntries(call) ==
    { p \in 1 .. call.num_copy :
          call.dst[p] # (IF call.op = "cipher_capability"
                         THEN CallerCipherEntry ELSE CallerAuthEntry) }

\* C24: the capability queries for the NULL cipher and the NULL
\* authentication return 2 with any capacity and any number of devices, zero
\* included; they write the all-zero entry at dst[0] when the capacity is at
\* least 1 and the all-zero entry with bit_mode set at dst[1] when it is at
\* least 2, and nothing else.
C24_NullVariants ==
    last.op \in {"cipher_capability", "auth_capability"} /\ last.alg = "NULL" =>
        LET zero == IF last.op = "cipher_capability" THEN ZeroCipherEntry
                    ELSE ZeroAuthEntry
        IN  /\ last.rc = 2
            /\ WrittenEntries(last) = 1 .. Min(last.num_copy, 2)
            /\ last.num_copy >= 1 => last.dst[1] = zero
            /\ last.num_copy >= 2 =>
                   last.dst[2] = [zero EXCEPT !.bit_mode = TRUE]

\* C24 witness: the NULL authentication queried with room for two entries or
\* more on a platform without any device.
C24_Witness ==
    /\ last.op = "auth_capability" /\ last.alg = "NULL"
    /\ last.num_copy >= 2
    /\ rte_cryptodev_count = 0

\* C25: a capability query that succeeds writes the first min(capacity,
\* total) entries of dst and no other; two queries in a row for the same
\* algorithm on the same devices return the same total, the entries written
\* with the smaller capacity are the first entries written with the larger
\* one, and with the same capacity the results are the same.
C25_Sizing ==
    /\ [](last.op \in {"cipher_capability", "auth_capability"} /\ last.rc >= 0
            => WrittenEntries(last) = 1 .. Min(last.num_copy, last.rc))
    /\ [][(/\ last.op \in {"cipher_capability", "auth_capability"}
           /\ last'.op = last.op
           /\ last'.alg = last.alg)
          => /\ last'.rc = last.rc
             /\ last.num_copy <= last'.num_copy =>
                    \A p \in WrittenEntries(last) : last'.dst[p] = last.dst[p]
             /\ last.num_copy = last'.num_copy => last'.dst = last.dst]_vars

\* C25 witness: AES-CBC queried on two devices that both have it, with a
\* capacity that ends inside the second device's variants.
C25_Witness ==
    /\ last.op = "cipher_capability" /\ last.alg = "AES_CBC"
    /\ last.rc = 6 /\ last.num_copy = 4
    /\ last.dst[4].key_len = 16

\* C28: odp_crypto_capability returns -1 when the platform has no device,
\* and when it returns 0 the null bits of ciphers and of auths are set,
\* whatever the devices advertise.
C28_NullAlwaysSupported ==
    last.op = "capability" =>
        /\ rte_cryptodev_count = 0 => last.rc = -1
        /\ last.rc = 0 => /\ "null" \in last.capability.ciphers
                          /\ "null" \in last.capability.auths

\* C28 witness: the query succeeds on devices none of which advertises the
\* NULL cipher or the NULL authentication.
C28_Witness ==
    /\ last.op = "capability" /\ last.rc = 0
    /\ \A d \in DOMAIN cdevs :
           /\ FindCap(cdevs[d], "CIPHER", "CIPHER_NULL") = 0
           /\ FindCap(cdevs[d], "AUTH", "AUTH_NULL") = 0

\* C26: odp_crypto_term_global returns -1 when the free list does not hold
\* MAX_SESSIONS slots, and it has then still freed the descriptor pool and
\* the shared memory (when odp_shm_free accepted); it returns 0 when the
\* free list holds every slot and odp_shm_free succeeded.
C26_LeakDetection ==
    last.op = "term" =>
        /\ last.count # MAX_SESSIONS =>
               /\ last.rc = -1
               /\ crypto_op_mempool # "created"
               /\ last.shm_ret = 0 => crypto_global_shm = "freed"
        /\ last.count = MAX_SESSIONS /\ last.shm_ret = 0 => last.rc = 0

\* C26 witness: the module is terminated while a session is still live, and
\* odp_shm_free succeeds.
C26_Witness ==
    /\ last.op = "term" /\ last.shm_ret = 0
    /\ live # {} /\ last.count < MAX_SESSIONS

\* C27: when odp_crypto_op or odp_crypto_op_enq has returned n, the items
\* 0 .. n - 1 went through odp_crypto_int in index order without a hard
\* failure (and, for odp_crypto_op_enq, were enqueued); if n is less than
\* the number of items, item n failed hard, in odp_crypto_int or (its event
\* freed) in the enqueue, and no later item was gone through; and the
\* completion queue of every session holds the counted items of that
\* session, in index order.
C27_BatchOrder ==
    batch.pc = "done" =>
        LET n == batch.i
            async == batch.kind = "op_enq"
        IN  /\ n <= batch.num_pkt
            /\ Len(batch.rcs) = IF n < batch.num_pkt THEN n + 1 ELSE n
            /\ \A k \in 1 .. n :
                   /\ batch.rcs[k] = 0
                   /\ async => batch.enq_rcs[k] = "ok"
            /\ n < batch.num_pkt =>
                   \/ batch.rcs[n + 1] < 0
                   \/ async /\ batch.enq_rcs[n + 1] = "fail" /\ n \in batch.freed
            /\ batch.freed \subseteq {n}
            /\ \A q \in ComplQueues :
                   batch.compl[q] =
                       IF async
                       THEN SelectSeq([k \in 1 .. n |-> k - 1],
                                LAMBDA item :
                                    sessions[batch.param[item + 1]].p.compl_queue
                                        = q)
                       ELSE << >>

\* C29: a create that fails reports INV_CIPHER, INV_AUTH or ENOMEM, and one
\* that succeeds NONE.  Without a device or without a free slot it is
\* ENOMEM.  Past these, an AEAD cipher with a digest longer than
\* PACKET_DIGEST_MAX, an AAD longer than PACKET_AAD_MAX, or AES-CCM with an
\* AAD longer than PACKET_AAD_MAX - AES_CCM_AAD_OFFSET, gives INV_CIPHER; a
\* cipher that is not AEAD and not mapped gives INV_CIPHER; with the cipher
\* mapped and its key copied, an authentication that is not mapped or a
\* digest longer than PACKET_DIGEST_MAX gives INV_AUTH; with the transforms
\* built, no device passing gives ENOMEM, and so does a failure of the
\* accelerator's session create or session init.
C29_ErrorCodes ==
    last.op = "create" =>
        LET p == last.param
            aead == cipher_is_aead(p.cipher_alg)
            entered == rte_cryptodev_count # 0 /\ last.free_before # 0
            room == rte_heap_size - last.heap_before
            fails(status) == last.rc # 0 /\ last.status = status
        IN  /\ last.rc # 0 => last.status \in {"INV_CIPHER", "INV_AUTH", "ENOMEM"}
            /\ last.rc = 0 => last.status = "NONE"
            /\ ~ entered => fails("ENOMEM")
            /\ entered /\ aead
               /\ \/ p.auth_digest_len > PACKET_DIGEST_MAX
                  \/ p.auth_aad_len > PACKET_AAD_MAX
                  \/ /\ p.cipher_alg = "AES_CCM"
                     /\ p.auth_aad_len + AES_CCM_AAD_OFFSET > PACKET_AAD_MAX
               => fails("INV_CIPHER")
            /\ entered /\ ~ aead
               /\ cipher_alg_odp_to_rte(p.cipher_alg) = "UNMAPPED"
               => fails("INV_CIPHER")
            /\ entered /\ ~ aead
               /\ cipher_alg_odp_to_rte(p.cipher_alg) # "UNMAPPED"
               /\ (p.cipher_key.length = 0 \/ room >= 1)
               /\ \/ auth_alg_odp_to_rte(p.auth_alg) = "UNMAPPED"
                  \/ p.auth_digest_len > PACKET_DIGEST_MAX
               => fails("INV_AUTH")
            /\ entered /\ SelXforms(p).rc = 0 /\ room >= KeysNeeded(p)
               /\ Passing(p) = {}
               => fails("ENOMEM")
            /\ last.accel \in {"create_fail", "init_fail"} => fails("ENOMEM")

\* C29 witness: with a device and a free slot, AES-CCM with the first AAD
\* length that does not fit behind the offset is refused with INV_CIPHER.
C29_Witness ==
    /\ last.op = "create" /\ last.rc # 0 /\ last.status = "INV_CIPHER"
    /\ last.param.cipher_alg = "AES_CCM"
    /\ last.param.auth_aad_len = PACKET_AAD_MAX - AES_CCM_AAD_OFFSET + 1
    /\ rte_cryptodev_count # 0 /\ last.free_before # 0

\* C30: for a session with a digest length that is not 0, a call that has
\* enqueued its descriptor on a decoding session (verify, AEAD decrypt) had
\* the caller's digest in the scratch buffer and zeros at the packet's
\* digest location when it did; and when a call on an encoding session
\* (generate, AEAD encrypt) gets its own descriptor back with SUCCESS, the
\* packet's digest location holds what the scratch buffer holds, the digest
\* the accelerator has computed.
C30_DigestStaging ==
    last.op = "int" /\ last.enqueued
    /\ sessions[last.handle].p.auth_digest_len # 0 =>
        LET p == sessions[last.handle].p
        IN  /\ p.op = "DECODE" =>
                   /\ last.staged.buf = last.pkt_in.digest
                   /\ last.staged.digest = ZeroBytes
            /\ p.op = "ENCODE" /\ last.rc = 0 /\ last.status = "SUCCESS"
               /\ last.dequeued = last.desc =>
                   /\ last.digest = last.buf
                   /\ last.buf.t = "mac"
                   /\ last.staged.digest = ZeroBytes

\* C30 witness: a generating call on AES-CBC with HMAC-SHA256 gets its own
\* descriptor back with SUCCESS.
C30_Witness ==
    /\ last.op = "int" /\ last.enqueued /\ last.rc = 0
    /\ last.status = "SUCCESS" /\ last.dequeued = last.desc
    /\ sessions[last.handle].p.op = "ENCODE"
    /\ sessions[last.handle].p.auth_alg = "SHA256_HMAC"
    /\ last.digest.t = "mac"

(***************************************************************************)
(* Properties of the IV sources of a call.                                 *)
(***************************************************************************)
\* C31 (IV source precedence): for an operation on a non-AEAD session that
\* got its descriptor, separately for the cipher IV and the auth IV: the
\* cipher IV region is at IV_OFFSET and the auth IV region MAX_IV_LENGTH
\* after it; with an explicit IV pointer the region holds the call's bytes,
\* also when the session caches an IV; without one and with a cached IV it
\* holds the cached bytes; with neither nothing is placed, and the
\* primitive's outcome is IV_INVALID exactly when the transform's IV length
\* is not zero (NONE when it is zero and nothing was submitted).
C31_IvPrecedence ==
    (OpPrepared /\ ~ cipher_is_aead(sessions[last.handle].p.cipher_alg)) =>
        LET s == sessions[last.handle]
            civ == IvBytes(last.cipher_iv, last.cipher_iv_ptr, s.cipher_iv_data)
            aiv == IvBytes(last.auth_iv, last.auth_iv_ptr, s.auth_iv_data)
        IN  /\ s.cipher_xform.iv.offset = IV_OFFSET
            /\ s.auth_xform.iv.offset = IV_OFFSET + MAX_IV_LENGTH
            /\ last.cipher_iv_ptr # 0 =>
                   civ = last.cipher_iv_ptr /\ last.result.cipher # "IV_INVALID"
            /\ last.cipher_iv_ptr = 0 /\ s.p.cipher_iv.data # 0 =>
                   civ = s.p.cipher_iv.data /\ last.result.cipher # "IV_INVALID"
            /\ last.cipher_iv_ptr = 0 /\ s.p.cipher_iv.data = 0 =>
                   /\ last.cipher_iv = "none"
                   /\ (last.result.cipher = "IV_INVALID")
                          <=> (s.cipher_xform.iv.length # 0)
                   /\ s.cipher_xform.iv.length = 0 /\ ~ last.enqueued
                          /\ last.rc = 0 => last.result.cipher = "NONE"
            /\ last.auth_iv_ptr # 0 =>
                   aiv = last.auth_iv_ptr /\ last.result.auth # "IV_INVALID"
            /\ last.auth_iv_ptr = 0 /\ s.p.auth_iv.data # 0 =>
                   aiv = s.p.auth_iv.data /\ last.result.auth # "IV_INVALID"
            /\ last.auth_iv_ptr = 0 /\ s.p.auth_iv.data = 0 =>
                   /\ last.auth_iv = "none"
                   /\ (last.result.auth = "IV_INVALID")
                          <=> (s.auth_xform.iv.length # 0)
                   /\ s.auth_xform.iv.length = 0 /\ ~ last.enqueued
                          /\ last.rc = 0 => last.result.auth = "NONE"

\* C31 witness: a call with explicit cipher and auth IV pointers on a
\* session that caches both IVs has been completed with the call's bytes in
\* both regions.
C31_Witness ==
    /\ OpPrepared /\ last.rc = 0 /\ last.dequeued = last.desc
    /\ sessions[last.handle].p.cipher_iv.data # 0
    /\ sessions[last.handle].p.auth_iv.data # 0
    /\ last.cipher_iv_ptr # 0 /\ last.auth_iv_ptr # 0
    /\ last.cipher_iv = "param" /\ last.auth_iv = "param"

\* A queue pair holds a descriptor while no call is in progress: a call
\* before timed out and left it there.
LateDescriptor == \E qp \in DOMAIN queues : queues[qp] # << >>

\* C32 (a late completion is not taken by a later call): an operation that
\* starts while the descriptor of a timed-out call is still on the queue
\* pair, and whose enqueue is taken and whose dequeue delivers, has dequeued
\* the descriptor it enqueued itself and reports its own working packet.
C32_NoLateCompletion ==
    [][(LateDescriptor /\ last'.op = "int" /\ last'.dequeued # 0) =>
           /\ last'.dequeued = last'.desc
           /\ last'.out_pkt # "old"]_vars

\* C33 (a hard failure does not consume the input): whenever an operation
\* returns -1 (no output packet, failed copy, no descriptor, rejected
\* enqueue, timeout), the caller's input packet has not been freed, also
\* when the working packet is another packet than the input.
C33_InputKept ==
    last.op = "int" /\ last.rc = -1 => ~ last.in_freed

\* C34 (IV_INVALID leaves the packet alone): an operation that ends with a
\* cipher or auth outcome IV_INVALID has enqueued nothing and polled
\* nothing, and the working packet holds the input packet's data bytes and,
\* at hash_result_offset, the input packet's digest bytes.
C34_IvInvalidNoEffect ==
    (/\ last.op = "int" /\ last.rc = 0
     /\ "IV_INVALID" \in {last.result.cipher, last.result.auth}) =>
        /\ ~ last.enqueued /\ last.attempts = 0 /\ last.dequeued = 0
        /\ last.data = last.pkt_in.data
        /\ last.digest = last.pkt_in.digest

(***************************************************************************)
(* Properties of concurrent session creation and destruction.              *)
(***************************************************************************)
\* The slots a thread holds: detached from the free list by its create and
\* not yet returned as a session, or released by its destroy or its failed
\* create and not yet appended to the free list.
HeldBy(t) ==
    IF calls[t].pc \in {"alloc_unlock", "setup", "free_lock", "free_read",
                        "free_write"} /\ calls[t].session # 0
    THEN {calls[t].session} ELSE {}

\* C35 (the pool under concurrent create and destroy): at every point of
\* every interleaving, no slot is on the free list more than once, no slot
\* is held by two calls, and no slot is at once on the free list and held
\* by a call or in use as a session, or held by a call and in use as a
\* session: a slot is handed to one session at a time.
C35_ConcurrentPool ==
    /\ \A i, j \in 1 .. Len(free) : i # j => free[i] # free[j]
    /\ \A t, u \in Threads : t # u => HeldBy(t) \cap HeldBy(u) = {}
    /\ \A t \in Threads : HeldBy(t) \cap (FreeSlots \cup live) = {}
    /\ FreeSlots \cap live = {}
    /\ \A s \in Slots :
           s \in FreeSlots \cup live \cup UNION { HeldBy(t) : t \in Threads }

\* C35 witness: a create holds a slot it has detached while another thread,
\* holding the slot of the session it destroys, waits for the lock that a
\* third thread has taken.
C35_Witness ==
    \E t, u, v \in Threads :
        /\ calls[t].pc = "setup" /\ calls[u].pc = "free_lock"
        /\ calls[u].kind = "destroy"
        /\ calls[v].pc \in {"alloc_read", "alloc_unlock"} /\ lock = 1

\* C36 (use after destroy): an operation that names a slot which is not in
\* use as a session (its session was destroyed, or its create failed, and
\* the slot has not been handed out again) returns -1 because the slot has
\* no native session: it allocates no output packet and no descriptor,
\* frees and changes no packet, enqueues and dequeues nothing, and leaves
\* the descriptor pool, the queue pairs, the lock and the sessions as they
\* were.
C36_UseAfterDestroy ==
    [][(last'.op = "int" /\ last'.handle \in Slots \ live) =>
           /\ last'.rc = -1 /\ last'.fail = "rte_session"
           /\ ~ last'.allocated /\ last'.desc = 0
           /\ ~ last'.in_freed /\ ~ last'.out_freed
           /\ last'.data = last'.pkt_in.data
           /\ last'.digest = last'.pkt_in.digest
           /\ ~ last'.enqueued /\ last'.attempts = 0 /\ last'.dequeued = 0
           /\ last'.subtype = "BASIC"
           /\ UNCHANGED << lock, sessVars, opVars >>]_vars

\* C36 witness: a session was created (its key copy is in the heap) and
\* destroyed, no session is in use, the destroyed slot is at the head of the
\* free list, and the operation that named it has returned -1 for want of a
\* native session.
C36_Witness ==
    /\ last.op = "int" /\ last.rc = -1 /\ last.fail = "rte_session"
    /\ live = {} /\ DOMAIN rte_heap # {}
    /\ free # << >> /\ last.handle = Head(free)

\* C37 (the range loops end): every call of is_valid_size returns, for every
\* 16-bit length and every 16-bit range, those included whose max is so
\* close to the 16-bit limit that the loop counter wraps around when the
\* increment is added.
C37_LoopsTerminate ==
    last.op = "is_valid_size" => last.rc # NoReturn

=============================================================================
